---- MODULE Spec2Model ----
(***************************************************************************)
(* A model of the rusctp SCTP association core: the reception mapping      *)
(* array (sctp_mapping_array.rs), the inbound/outbound stream engine       *)
(* (sctp_stream.rs), the recovery engine (sctp_recovery.rs) and the        *)
(* association state machine (lib.rs).                                     *)
(*                                                                         *)
(* TSNs are serial numbers of width TsnBits.  The code uses 32 bits; the   *)
(* model keeps the modular arithmetic and scales the width so that the     *)
(* values stay inside the model checker's integers.                        *)
(***************************************************************************)
EXTENDS Integers, Sequences, FiniteSets, TLC

\* ------------------------------------------------------------------------
\* Bounds of the model
\* ------------------------------------------------------------------------
TsnBits == 16
MaxOff == 16
MaxRun == 8
MaxRecvs == 3
MaxFrags == 4

\* ------------------------------------------------------------------------
\* Program constants
\* ------------------------------------------------------------------------
StorageLen == 256

\* ------------------------------------------------------------------------
\* Serial-number arithmetic (sna::SerialNumber, RFC 1982)
\* ------------------------------------------------------------------------
TsnMod == 2^TsnBits
TsnHalf == 2^(TsnBits - 1)
TsnMax == TsnMod - 1

TsnAdd(a, n) == (a + n) % TsnMod
TsnSub(a, b) == (a - b + TsnMod) % TsnMod

SerialLt(a, b) == LET d == TsnSub(b, a) IN d > 0 /\ d < TsnHalf
SerialGt(a, b) == SerialLt(b, a)
SerialLe(a, b) == a = b \/ SerialLt(a, b)
SerialGe(a, b) == a = b \/ SerialLt(b, a)

\* `x as i16`: the low 16 bits, read as a signed number.
AsI16(x) == LET m == x % 65536 IN IF m >= 32768 THEN m - 65536 ELSE m

\* ------------------------------------------------------------------------
\* Helpers on finite sets of numbers
\* ------------------------------------------------------------------------
SetMin(S) == CHOOSE x \in S : \A y \in S : x <= y
SetMax(S) == CHOOSE x \in S : \A y \in S : x >= y

RECURSIVE SortedSeq(_)
SortedSeq(S) == IF S = {} THEN <<>> ELSE <<SetMin(S)>> \o SortedSeq(S \ {SetMin(S)})

\* ------------------------------------------------------------------------
\* Mapping array (sctp_mapping_array.rs)
\*   bits : the set of bit positions that are 1 in `storage`
\*          (position p is bit p % 8 of byte p \div 8)
\*   len  : storage.len()
\* ------------------------------------------------------------------------
MANew == [len |-> 0, bits |-> {}, base_tsn |-> 0, largest_tsn |-> 0,
          cummulative_tsn |-> 0]

MAInitialize(init_tsn) ==
    [len |-> StorageLen, bits |-> {},
     base_tsn |-> init_tsn,
     largest_tsn |-> IF init_tsn = 0 THEN TsnMax ELSE init_tsn - 1,
     cummulative_tsn |-> IF init_tsn = 0 THEN TsnMax ELSE init_tsn - 1]

\* The bits of byte i, as a set of bit indices 0..7.
ByteBits(bits, i) == {p - 8 * i : p \in {q \in bits : q \div 8 = i}}

\* Number of leading bytes equal to 0xff, scanning from byte i.
RECURSIVE LeadingFull(_, _, _)
LeadingFull(bits, len, i) ==
    IF i < len /\ ByteBits(bits, i) = 0..7
    THEN 1 + LeadingFull(bits, len, i + 1)
    ELSE 0

\* Number of low bits of value 1 in a byte, up to the first 0 bit.
RECURSIVE LowOnes(_, _)
LowOnes(byte, k) == IF k < 8 /\ k \in byte THEN 1 + LowOnes(byte, k + 1) ELSE 0

\* How far base_tsn moves when `moved` leading bytes are shifted out.
BaseAdvance(moved) == 8

\* update() that takes every TSN it records for the largest.
MAUpdateLargestLast(ma, tsn) ==
    IF SerialLt(tsn, ma.base_tsn) \/ SerialLt(tsn, ma.cummulative_tsn)
    THEN [ma |-> ma, res |-> "InvalidValue", val |-> 0]
    ELSE
      LET gap == TsnSub(tsn, ma.base_tsn) IN
      IF gap \div 8 >= ma.len
      THEN [ma |-> ma, res |-> "panic", val |-> 0]
      ELSE
        LET bits1 == ma.bits \cup {gap}
            largest1 == tsn
            moved == LeadingFull(bits1, ma.len, 0)
            ones == 8 * moved
                    + (IF moved < ma.len THEN LowOnes(ByteBits(bits1, moved), 0) ELSE 0)
            cum == TsnAdd(IF ma.base_tsn = 0 THEN TsnMax ELSE ma.base_tsn - 1, ones)
            bits2 == IF moved > 0
                     THEN {p - 8 * moved : p \in {q \in bits1 : q >= 8 * moved}}
                     ELSE bits1
            base2 == IF moved > 0 THEN TsnAdd(ma.base_tsn, BaseAdvance(moved))
                     ELSE ma.base_tsn
            adv == SerialGt(cum, ma.cummulative_tsn)
        IN [ma |-> [len |-> ma.len, bits |-> bits2, base_tsn |-> base2,
                    largest_tsn |-> largest1,
                    cummulative_tsn |-> IF adv THEN cum ELSE ma.cummulative_tsn],
            res |-> IF adv THEN "Some" ELSE "None",
            val |-> IF adv THEN cum ELSE 0]

\* update(tsn): the result is [ma, res, val] with res one of
\* "Some" (val = new cumulative TSN), "None", "InvalidValue", "panic".
MAUpdate(ma, tsn) ==
    IF SerialLt(tsn, ma.base_tsn) \/ SerialLt(tsn, ma.cummulative_tsn)
    THEN [ma |-> ma, res |-> "InvalidValue", val |-> 0]
    ELSE
      LET gap == TsnSub(tsn, ma.base_tsn) IN
      IF gap \div 8 >= ma.len
      THEN [ma |-> ma, res |-> "panic", val |-> 0]
      ELSE
        LET bits1 == ma.bits \cup {gap}
            largest1 == IF SerialGt(tsn, ma.largest_tsn) THEN tsn ELSE ma.largest_tsn
            moved == LeadingFull(bits1, ma.len, 0)
            ones == 8 * moved
                    + (IF moved < ma.len THEN LowOnes(ByteBits(bits1, moved), 0) ELSE 0)
            cum == TsnAdd(IF ma.base_tsn = 0 THEN TsnMax ELSE ma.base_tsn - 1, ones)
            bits2 == IF moved > 0
                     THEN {p - 8 * moved : p \in {q \in bits1 : q >= 8 * moved}}
                     ELSE bits1
            base2 == IF moved > 0 THEN TsnAdd(ma.base_tsn, BaseAdvance(moved))
                     ELSE ma.base_tsn
            adv == SerialGt(cum, ma.cummulative_tsn)
        IN [ma |-> [len |-> ma.len, bits |-> bits2, base_tsn |-> base2,
                    largest_tsn |-> largest1,
                    cummulative_tsn |-> IF adv THEN cum ELSE ma.cummulative_tsn],
            res |-> IF adv THEN "Some" ELSE "None",
            val |-> IF adv THEN cum ELSE 0]

\* SctpAckTrack::get(byte): the 256-entry table, as the function of the byte
\* it tabulates: right_edge is bit 0, left_edge is bit 7, gaps are the
\* maximal runs of 1 bits, lowest first.
RightEdge(byte) == 0 \in byte
LeftEdge(byte) == 7 \in byte
RunEnd(byte, s) == SetMax({e \in s..7 : \A b \in s..e : b \in byte})
AckTrackGaps(byte) ==
    LET starts == SortedSeq({b \in byte : (b - 1) \notin byte})
    IN [i \in 1..Len(starts) |-> [start |-> starts[i], end |-> RunEnd(byte, starts[i])]]

\* The gap loop of one byte: st = [blocks, mergenable].
RECURSIVE SackGaps(_, _, _, _, _)
SackGaps(gaps, k, offset, right_edge, st) ==
    IF k > Len(gaps) THEN st
    ELSE LET s == IF offset < 0 THEN gaps[k].start - (0 - offset) + 1
                  ELSE gaps[k].start + offset + 1
             e == IF offset < 0 THEN gaps[k].end - (0 - offset) + 1
                  ELSE gaps[k].end + offset + 1
             pushed == IF ~st.mergenable \/ ~right_edge
                       THEN Append(st.blocks, [start |-> s, end |-> e])
                       ELSE st.blocks
             n == Len(pushed)
         IN SackGaps(gaps, k + 1, offset, right_edge,
                     [blocks |-> [pushed EXCEPT ![n].end = e], mergenable |-> FALSE])

\* Whether the byte loop stops after the byte that ends at `offset`.
SackLoopDone(ma, offset) ==
    SerialGe(TsnAdd(ma.cummulative_tsn, offset), ma.largest_tsn)

\* The byte loop of genarate_sack, from byte i on.
RECURSIVE SackScan(_, _, _, _, _)
SackScan(ma, i, offset, mergenable, blocks) ==
    IF i >= ma.len THEN blocks
    ELSE LET raw == ByteBits(ma.bits, i)
             byte == IF i = 0 /\ offset < 0 THEN {b \in raw : b >= 0 - offset} ELSE raw
             st == SackGaps(AckTrackGaps(byte), 1, offset, RightEdge(byte),
                            [blocks |-> blocks, mergenable |-> mergenable])
             merg == IF LeftEdge(byte) THEN TRUE ELSE st.mergenable
         IN IF SackLoopDone(ma, offset + 8) THEN st.blocks
            ELSE SackScan(ma, i + 1, offset + 8, merg, st.blocks)

\* The initial offset: [panic, offset].  `checked` says whether the build
\* checks arithmetic overflow (a debug build) or wraps (a release build).
SackOffset(ma, checked) ==
    IF ~SerialGe(ma.cummulative_tsn, ma.base_tsn) THEN [panic |-> FALSE, offset |-> 0]
    ELSE IF ma.cummulative_tsn >= ma.base_tsn
         THEN LET o == 0 - AsI16(ma.cummulative_tsn - ma.base_tsn + 1)
              IN [panic |-> ~(o > -8), offset |-> o]
         ELSE \* TsnMax - cum + 1 + base + 1 exceeds the width: cum < base here
              LET o == 0 - AsI16((TsnMax - ma.cummulative_tsn + 1 + ma.base_tsn + 1) % TsnMod)
              IN [panic |-> checked \/ ~(o > -8), offset |-> o]

\* genarate_sack(): [panic, cum_ack, gap_acks].
GenarateSack(ma, checked) ==
    IF ~SerialGt(ma.largest_tsn, ma.cummulative_tsn)
    THEN [panic |-> FALSE, cum_ack |-> ma.cummulative_tsn, gap_acks |-> <<>>]
    ELSE LET o == SackOffset(ma, checked)
         IN IF o.panic
            THEN [panic |-> TRUE, cum_ack |-> ma.cummulative_tsn, gap_acks |-> <<>>]
            ELSE [panic |-> FALSE, cum_ack |-> ma.cummulative_tsn,
                  gap_acks |-> SackScan(ma, 0, o.offset, FALSE, <<>>)]


\* ------------------------------------------------------------------------
\* Inbound stream (sctp_stream.rs)
\*   A DATA chunk is [u_bit, b_bit, e_bit, tsn, stream_id, stream_seq, data].
\*   Option values use None; a stream sequence number is a serial number of
\*   16 bits.
\* ------------------------------------------------------------------------
None == -1
Violation == -2
SsnMod == 65536

SsnAdd(a, n) == (a + n) % SsnMod
SsnLt(a, b) == LET d == (b - a + SsnMod) % SsnMod IN d > 0 /\ d < SsnMod \div 2
SsnGt(a, b) == SsnLt(b, a)

\* A byte buffer is kept as a sequence of runs [src, lo, hi]: the bytes lo..hi
\* of the buffer src that the sending application wrote.
Bytes(src, n) == IF n = 0 THEN <<>> ELSE <<[src |-> src, lo |-> 0, hi |-> n - 1]>>

RECURSIVE DataLen(_)
DataLen(data) ==
    IF data = <<>> THEN 0 ELSE Head(data).hi - Head(data).lo + 1 + DataLen(Tail(data))

RECURSIVE SumLen(_)
SumLen(chunks) ==
    IF chunks = <<>> THEN 0 ELSE DataLen(Head(chunks).data) + SumLen(Tail(chunks))

\* VecDeque::insert(i, x) and VecDeque::remove(i), with i counted from 0.
InsertAt(q, i, x) == SubSeq(q, 1, i) \o <<x>> \o SubSeq(q, i + 1, Len(q))
RemoveAt(q, i) == SubSeq(q, 1, i) \o SubSeq(q, i + 2, Len(q))

StreamInNew(strmid) ==
    [stream_id |-> strmid, next_seq |-> 0,
     waiting_ordered_queue |-> <<>>, waiting_unordered_queue |-> <<>>,
     readable_ordered_queue |-> <<>>, readable_unordered_queue |-> <<>>]

DataMessageNew(chunk) ==
    [stream_id |-> chunk.stream_id,
     stream_seq |-> IF ~chunk.u_bit THEN chunk.stream_seq ELSE None,
     start_tsn |-> IF chunk.b_bit THEN chunk.tsn ELSE None,
     end_tsn |-> IF chunk.e_bit THEN chunk.tsn ELSE None,
     smallest_tsn |-> chunk.tsn,
     largest_tsn |-> chunk.tsn,
     max_tsn |-> None,
     complete |-> chunk.b_bit /\ chunk.e_bit,
     len |-> DataLen(chunk.data),
     chunks |-> <<chunk>>]

\* is_include: "true", "false" or "ProtocolViolation".
IsInclude(msg, chunk) ==
    IF \/ (~chunk.u_bit /\ msg.stream_seq # chunk.stream_seq)
       \/ (chunk.u_bit /\ msg.stream_seq # None)
    THEN "false"
    ELSE LET viol == IF ~chunk.u_bit THEN "ProtocolViolation" ELSE "false" IN
      IF msg.start_tsn # None /\ chunk.b_bit /\ msg.start_tsn # chunk.tsn THEN viol
      ELSE IF msg.start_tsn # None /\ ~(chunk.b_bit /\ msg.start_tsn # chunk.tsn)
              /\ SerialLt(chunk.tsn, msg.start_tsn) THEN "ProtocolViolation"
      ELSE IF msg.end_tsn # None /\ chunk.e_bit /\ msg.end_tsn # chunk.tsn THEN viol
      ELSE IF msg.end_tsn # None /\ ~(chunk.e_bit /\ msg.end_tsn # chunk.tsn)
              /\ SerialGt(chunk.tsn, msg.end_tsn) THEN "ProtocolViolation"
      ELSE IF chunk.b_bit /\ SerialLe(msg.smallest_tsn, chunk.tsn) THEN viol
      ELSE IF chunk.e_bit /\ SerialGe(msg.largest_tsn, chunk.tsn) THEN viol
      ELSE IF msg.max_tsn # None /\ SerialGt(chunk.tsn, msg.max_tsn) THEN "false"
      ELSE "true"

\* is_splittable: "true", "false" or "ProtocolViolation".
IsSplittable(msg, chunk) ==
    IF ~chunk.u_bit \/ msg.stream_seq # None THEN "false"
    ELSE IF (~chunk.b_bit /\ ~chunk.e_bit) \/ (chunk.b_bit /\ chunk.e_bit) THEN "false"
    ELSE IF SerialGt(chunk.tsn, msg.smallest_tsn) /\ SerialLt(chunk.tsn, msg.largest_tsn)
         THEN IF chunk.b_bit
              THEN IF msg.start_tsn # None
                      /\ SerialGe(TsnAdd(msg.start_tsn, 1), chunk.tsn)
                   THEN "ProtocolViolation" ELSE "true"
              ELSE IF msg.end_tsn # None
                      /\ SerialLe(msg.end_tsn, TsnAdd(chunk.tsn, 1))
                   THEN "ProtocolViolation" ELSE "true"
         ELSE "false"


\* The index (from 0) of the first chunk whose TSN is not below tsn, or the
\* number of chunks if there is none.
RECURSIVE FirstNotBelow(_, _, _)
FirstNotBelow(chunks, tsn, i) ==
    IF i >= Len(chunks) THEN Len(chunks)
    ELSE IF SerialLt(chunks[i + 1].tsn, tsn) THEN FirstNotBelow(chunks, tsn, i + 1)
    ELSE i

TsnPred(tsn) == IF tsn = 0 THEN TsnMax ELSE tsn - 1

\* split: [res, self, msg], res one of "Ok", "ProtocolViolation", "panic".
Split(self, chunk) ==
    LET at == FirstNotBelow(self.chunks, chunk.tsn, 0)
        n == Len(self.chunks)
    IN IF (~chunk.b_bit /\ ~chunk.e_bit) \/ (chunk.b_bit /\ chunk.e_bit)
       THEN [res |-> "panic", self |-> self, msg |-> self]
       ELSE IF at < n /\ self.chunks[at + 1].tsn = chunk.tsn
       THEN [res |-> "ProtocolViolation", self |-> self, msg |-> self]
       ELSE IF ~(at > 0) \/ ~(at < n)
       THEN [res |-> "panic", self |-> self, msg |-> self]
       ELSE
         LET former == SubSeq(self.chunks, 1, at)
             latter == SubSeq(self.chunks, at + 1, n)
         IN IF chunk.b_bit
            THEN [res |-> "Ok",
                  msg |-> [stream_id |-> chunk.stream_id, stream_seq |-> None,
                           start_tsn |-> None, end_tsn |-> self.end_tsn,
                           smallest_tsn |-> latter[1].tsn,
                           largest_tsn |-> latter[Len(latter)].tsn,
                           max_tsn |-> None, complete |-> FALSE,
                           len |-> SumLen(latter), chunks |-> latter],
                  self |-> [self EXCEPT !.chunks = former,
                                        !.largest_tsn = former[Len(former)].tsn,
                                        !.end_tsn = None,
                                        !.max_tsn = TsnPred(latter[1].tsn),
                                        !.len = SumLen(former)]]
            ELSE [res |-> "Ok",
                  msg |-> [stream_id |-> chunk.stream_id, stream_seq |-> None,
                           start_tsn |-> self.start_tsn, end_tsn |-> None,
                           smallest_tsn |-> former[1].tsn,
                           largest_tsn |-> former[Len(former)].tsn,
                           max_tsn |-> TsnPred(self.smallest_tsn), complete |-> FALSE,
                           len |-> SumLen(former), chunks |-> former],
                  self |-> [self EXCEPT !.chunks = latter,
                                        !.smallest_tsn = latter[1].tsn,
                                        !.start_tsn = None,
                                        !.len = SumLen(latter)]]

\* Whether the chunks carry the TSNs start, start + 1, .. without a hole.
Contiguous(chunks, start) ==
    \A i \in 1..Len(chunks) : chunks[i].tsn = TsnAdd(start, i - 1)

\* The completeness check at the end of insert: [msg, panic].
InsertFinish(msg) ==
    IF msg.start_tsn # None /\ msg.end_tsn # None
    THEN IF msg.start_tsn # msg.smallest_tsn \/ msg.end_tsn # msg.largest_tsn
         THEN [msg |-> msg, panic |-> TRUE]
         ELSE [msg |-> [msg EXCEPT !.complete =
                           msg.complete \/ Contiguous(msg.chunks, msg.start_tsn)],
               panic |-> FALSE]
    ELSE [msg |-> msg, panic |-> FALSE]

\* A middle fragment put behind the chunks already held, whatever its TSN.
InsertMiddleAtBack(msg, chunk) ==
    [msg |-> [msg EXCEPT !.chunks = Append(@, chunk), !.len = @ + DataLen(chunk.data)],
     done |-> TRUE]

\* The middle-fragment branch of insert: [msg, done], done = FALSE for the
\* early `return false`.
InsertMiddle(msg, chunk) ==
    LET at == FirstNotBelow(msg.chunks, chunk.tsn, 0)
        n == Len(msg.chunks)
        grown == [msg EXCEPT
                    !.smallest_tsn = IF SerialLt(chunk.tsn, @) THEN chunk.tsn ELSE @,
                    !.largest_tsn = IF SerialGt(chunk.tsn, @) THEN chunk.tsn ELSE @,
                    !.len = @ + DataLen(chunk.data)]
    IN IF at < n /\ msg.chunks[at + 1].tsn = chunk.tsn
       THEN [msg |-> msg, done |-> FALSE]
       ELSE [msg |-> [grown EXCEPT !.chunks = InsertAt(msg.chunks, at, chunk)],
             done |-> TRUE]

\* insert: [msg, ok, panic]; ok is the returned bool.
Insert(msg, chunk) ==
    LET refuse == [msg |-> msg, ok |-> FALSE, panic |-> FALSE]
        finish(m) == LET f == InsertFinish(m)
                     IN [msg |-> f.msg, ok |-> TRUE, panic |-> f.panic]
    IN IF msg.complete \/ (chunk.b_bit /\ chunk.e_bit) THEN refuse
       ELSE IF ~chunk.u_bit /\ msg.stream_seq # chunk.stream_seq THEN refuse
       ELSE IF chunk.u_bit /\ msg.stream_seq # None THEN refuse
       ELSE IF chunk.b_bit
            THEN IF msg.start_tsn # None \/ SerialLe(msg.smallest_tsn, chunk.tsn)
                 THEN refuse
                 ELSE finish([msg EXCEPT !.start_tsn = chunk.tsn,
                                         !.smallest_tsn = chunk.tsn,
                                         !.len = @ + DataLen(chunk.data),
                                         !.chunks = <<chunk>> \o @])
       ELSE IF chunk.e_bit
            THEN IF msg.end_tsn # None \/ SerialGe(msg.largest_tsn, chunk.tsn)
                 THEN refuse
                 ELSE finish([msg EXCEPT !.end_tsn = chunk.tsn,
                                         !.largest_tsn = chunk.tsn,
                                         !.len = @ + DataLen(chunk.data),
                                         !.chunks = Append(@, chunk)])
       ELSE LET m == InsertMiddle(msg, chunk)
            IN IF m.done THEN finish(m.msg) ELSE refuse


\* The position insert_into_waiting gives msg in a waiting queue, scanning
\* from index i: the index to insert at, or Violation.
RECURSIVE WaitingPos(_, _, _, _)
WaitingPos(queue, msg, ordered, i) ==
    IF i >= Len(queue) THEN Len(queue)
    ELSE LET item == queue[i + 1]
             above == IF ordered THEN SsnGt(msg.stream_seq, item.stream_seq)
                      ELSE SerialGt(msg.smallest_tsn, item.largest_tsn)
             same == IF ordered THEN msg.stream_seq = item.stream_seq
                     ELSE msg.smallest_tsn = item.largest_tsn
         IN IF above THEN WaitingPos(queue, msg, ordered, i + 1)
            ELSE IF same THEN Violation
            ELSE i

\* insert_into_waiting: [res, si].
InsertIntoWaiting(si, msg) ==
    LET ordered == msg.stream_seq # None
        queue == IF ordered THEN si.waiting_ordered_queue ELSE si.waiting_unordered_queue
        pos == WaitingPos(queue, msg, ordered, 0)
    IN IF pos = Violation THEN [res |-> "ProtocolViolation", si |-> si]
       ELSE [res |-> "Ok",
             si |-> IF ordered
                    THEN [si EXCEPT !.waiting_ordered_queue = InsertAt(queue, pos, msg)]
                    ELSE [si EXCEPT !.waiting_unordered_queue = InsertAt(queue, pos, msg)]]

\* find_msg_from_waiting / find_splittable_msg_from_waiting over one queue:
\* the index (from 0) of the first message that includes the chunk (or, with
\* splittable, that the chunk splits), None if there is none, Violation if
\* the test fails before that.
RECURSIVE FindFrom(_, _, _, _)
FindFrom(queue, chunk, splittable, i) ==
    IF i >= Len(queue) THEN None
    ELSE LET v == IF splittable THEN IsSplittable(queue[i + 1], chunk)
                  ELSE IsInclude(queue[i + 1], chunk)
         IN IF v = "ProtocolViolation" THEN Violation
            ELSE IF v = "true" THEN i
            ELSE FindFrom(queue, chunk, splittable, i + 1)

FindMsgFromWaiting(si, chunk) ==
    FindFrom(IF ~chunk.u_bit THEN si.waiting_ordered_queue
             ELSE si.waiting_unordered_queue, chunk, FALSE, 0)

FindSplittableMsgFromWaiting(si, chunk) ==
    IF ~chunk.u_bit THEN None
    ELSE FindFrom(si.waiting_unordered_queue, chunk, TRUE, 0)

\* The two loops that close recv: complete ordered messages at the head of
\* the waiting queue become readable in stream_seq order, complete unordered
\* messages become readable scanning the waiting queue from its back.
RECURSIVE PromoteOrdered(_, _)
PromoteOrdered(si, len) ==
    IF /\ si.waiting_ordered_queue # <<>>
       /\ Head(si.waiting_ordered_queue).stream_seq = si.next_seq
       /\ Head(si.waiting_ordered_queue).complete
    THEN PromoteOrdered(
            [si EXCEPT !.waiting_ordered_queue = Tail(@),
                       !.readable_ordered_queue =
                            Append(@, Head(si.waiting_ordered_queue)),
                       !.next_seq = SsnAdd(@, 1)],
            len + Head(si.waiting_ordered_queue).len)
    ELSE [si |-> si, len |-> len]

RECURSIVE PromoteUnordered(_, _, _)
PromoteUnordered(si, len, i) ==
    IF i <= 0 THEN [si |-> si, len |-> len]
    ELSE IF si.waiting_unordered_queue[i].complete
         THEN PromoteUnordered(
                 [si EXCEPT !.waiting_unordered_queue = RemoveAt(@, i - 1),
                            !.readable_unordered_queue =
                                 Append(@, si.waiting_unordered_queue[i])],
                 len + si.waiting_unordered_queue[i].len, i - 1)
         ELSE PromoteUnordered(si, len, i - 1)

Promote(si, len) ==
    LET o == PromoteOrdered(si, len)
        u == PromoteUnordered(o.si, o.len, Len(o.si.waiting_unordered_queue))
    IN [si |-> u.si, res |-> "Ok", len |-> u.len]


\* The fragment branch of recv, for a chunk that is not a whole message.
RecvFragment(si, chunk) ==
    LET fail(s0) == [si |-> s0, res |-> "ProtocolViolation", len |-> 0]
        crash(s0) == [si |-> s0, res |-> "panic", len |-> 0]
        waited(s0, w) == IF w.res = "Ok" THEN Promote(w.si, 0) ELSE fail(s0)
        waitNew(s0, msg) == waited(s0, InsertIntoWaiting(s0, msg))
        inserted(found, r) ==
            IF r.panic
            THEN crash(IF ~chunk.u_bit
                       THEN [si EXCEPT !.waiting_ordered_queue[found + 1] = r.msg]
                       ELSE [si EXCEPT !.waiting_unordered_queue[found + 1] = r.msg])
            ELSE Promote(IF ~chunk.u_bit
                         THEN [si EXCEPT !.waiting_ordered_queue[found + 1] = r.msg]
                         ELSE [si EXCEPT !.waiting_unordered_queue[found + 1] = r.msg], 0)
        splitInserted(s1, r) == IF r.panic THEN crash(s1) ELSE waitNew(s1, r.msg)
        splitted(at, sp) ==
            IF sp.res # "Ok" THEN crash(si)
            ELSE splitInserted([si EXCEPT !.waiting_unordered_queue[at + 1] = sp.self],
                               Insert(sp.msg, chunk))
        splittable(at) ==
            IF at = Violation THEN fail(si)
            ELSE IF at # None
            THEN splitted(at, Split(si.waiting_unordered_queue[at + 1], chunk))
            ELSE waitNew(si, DataMessageNew(chunk))
        searched(found) ==
            IF found = Violation THEN fail(si)
            ELSE IF found # None
            THEN inserted(found, Insert(IF ~chunk.u_bit
                                        THEN si.waiting_ordered_queue[found + 1]
                                        ELSE si.waiting_unordered_queue[found + 1], chunk))
            ELSE IF chunk.u_bit THEN splittable(FindSplittableMsgFromWaiting(si, chunk))
            ELSE waitNew(si, DataMessageNew(chunk))
    IN searched(FindMsgFromWaiting(si, chunk))

\* recv(chunk): [si, res, len], res one of "Ok", "ProtocolViolation", "panic".
StreamInRecv(si, chunk) ==
    IF si.stream_id # chunk.stream_id THEN [si |-> si, res |-> "panic", len |-> 0]
    ELSE IF SsnLt(chunk.stream_seq, si.next_seq)
    THEN [si |-> si, res |-> "ProtocolViolation", len |-> 0]
    ELSE IF chunk.b_bit /\ chunk.e_bit
    THEN LET msg == DataMessageNew(chunk)
         IN IF msg.stream_seq = None
            THEN Promote([si EXCEPT !.readable_unordered_queue = Append(@, msg)],
                         msg.len)
            ELSE IF msg.stream_seq = si.next_seq
            THEN Promote([si EXCEPT !.readable_ordered_queue = Append(@, msg),
                                    !.next_seq = SsnAdd(@, 1)], msg.len)
            ELSE LET waited(w) == [si |-> w.si, res |-> w.res, len |-> 0]
                 IN waited(InsertIntoWaiting(si, msg))
    ELSE RecvFragment(si, chunk)

RECURSIVE ConcatData(_)
ConcatData(chunks) ==
    IF chunks = <<>> THEN <<>> ELSE Head(chunks).data \o ConcatData(Tail(chunks))

\* read(): [si, data, read]; read = FALSE when nothing is readable.
StreamInRead(si) ==
    IF si.readable_unordered_queue # <<>>
    THEN [si |-> [si EXCEPT !.readable_unordered_queue = Tail(@)], read |-> TRUE,
          data |-> ConcatData(Head(si.readable_unordered_queue).chunks)]
    ELSE IF si.readable_ordered_queue # <<>>
    THEN [si |-> [si EXCEPT !.readable_ordered_queue = Tail(@)], read |-> TRUE,
          data |-> ConcatData(Head(si.readable_ordered_queue).chunks)]
    ELSE [si |-> si, read |-> FALSE, data |-> <<>>]



\* ------------------------------------------------------------------------
\* Chunks and their sizes (sctp_pkt.rs)
\* ------------------------------------------------------------------------
\* A chunk is a record with a field type; a DATA chunk carries the fields of
\* SctpDataChunk.  Timer deadlines are kept as armed / not armed: the moment a
\* timer expires is chosen by the environment.
Pad4(n) == ((n + 3) \div 4) * 4

Min(a, b) == IF a < b THEN a ELSE b
Max(a, b) == IF a > b THEN a ELSE b

ChunkBytesLen(chunk) ==
    CASE chunk.type = "Data" -> Pad4(16 + DataLen(chunk.data))
      [] chunk.type = "Init" -> Pad4(20 + 8 * Len(chunk.params))
      [] chunk.type = "InitAck" ->
            Pad4(20 + 8 * Len(chunk.params)
                 + (IF chunk.cookie = <<>> THEN 0 ELSE 4 + chunk.cookie[1].len))
      [] chunk.type = "Sack" -> Pad4(16 + 4 * Len(chunk.gap_acks))
      [] chunk.type = "Abort" -> 4
      [] chunk.type = "Shutdown" -> 8
      [] chunk.type = "CookieEcho" -> Pad4(4 + chunk.cookie.len)
      [] chunk.type \in {"ShutdownAck", "CookieAck", "ShutdownComplete"} -> 4
      [] chunk.type \in {"Heartbeat", "HeartbeatAck"} -> 32

\* ------------------------------------------------------------------------
\* SctpTsnQueue and SctpBTreeMap (sctp_collections.rs)
\* ------------------------------------------------------------------------
TsnQueueNew(sna) == [smallest_tsn |-> sna, array |-> <<>>]

\* get()/get_mut(): the index of tsn, counted from 1; beyond Len() it is absent.
TsnQueueIndex(q, tsn) == TsnSub(tsn, q.smallest_tsn) + 1
TsnQueueHas(q, tsn) == TsnQueueIndex(q, tsn) <= Len(q.array)
TsnQueueTsn(q, i) == TsnAdd(q.smallest_tsn, i - 1)

\* drain(start, end): VecDeque::drain panics on a range outside the array.
TsnQueueDrain(q, start, end) ==
    LET s == TsnSub(start, q.smallest_tsn)
        e == TsnSub(end, q.smallest_tsn)
    IN IF s > e \/ e > Len(q.array)
       THEN [q |-> q, panic |-> TRUE]
       ELSE [q |-> [smallest_tsn |-> end,
                    array |-> SubSeq(q.array, 1, s) \o SubSeq(q.array, e + 1, Len(q.array))],
             panic |-> FALSE]

\* A map keyed by TSN: tree_map holds records with a field tsn.
BTreeNew == [lowest_sn |-> None, highest_sn |-> None, tree_map |-> {}]

BTreeInsert(m, v) ==
    [lowest_sn |-> IF m.lowest_sn = None \/ SerialLt(v.tsn, m.lowest_sn)
                   THEN v.tsn ELSE m.lowest_sn,
     highest_sn |-> IF m.highest_sn = None \/ SerialGt(v.tsn, m.highest_sn)
                    THEN v.tsn ELSE m.highest_sn,
     tree_map |-> {x \in m.tree_map : x.tsn # v.tsn} \cup {v}]

BTreeRemove(m, tsn) == [m EXCEPT !.tree_map = {x \in @ : x.tsn # tsn}]
BTreeGet(m, tsn) == CHOOSE x \in m.tree_map : x.tsn = tsn

\* keys(): from lowest_sn to highest_sn, wrapping through 0.
BTreeKeys(m) ==
    LET ks == {x.tsn : x \in m.tree_map}
    IN IF m.lowest_sn = None \/ m.highest_sn = None THEN <<>>
       ELSE IF m.highest_sn >= m.lowest_sn
       THEN SortedSeq({k \in ks : m.lowest_sn <= k /\ k <= m.highest_sn})
       ELSE SortedSeq({k \in ks : m.lowest_sn <= k})
            \o SortedSeq({k \in ks : k <= m.highest_sn})

\* ------------------------------------------------------------------------
\* SctpPath (sctp_recovery.rs)
\* ------------------------------------------------------------------------
UsizeMax == 2147483647
DUP_THRESH == 3
MAX_PATH_RETRANS == 5

\* rand::random::<u64>() of a new path: a value the peer is not told, one for
\* each path.
RandomValue(id) == 40 + id

\* The round-trip estimator is left out: RTO only fixes when an armed timer
\* expires.  last_time tells whether the path has a time of last use;
\* heartbeat_sent holds the heartbeat info of the HEARTBEATs that are out.
SctpPathNew(id, mtu) ==
    [id |-> id, confirmed |-> FALSE, state |-> "Active", mtu |-> mtu,
     flight |-> 0, ack |-> 0, cwnd |-> mtu * 4, ssthresh |-> UsizeMax,
     partial_bytes_acked |-> 0, t1_timeout |-> FALSE, t3_retrans_timeout |-> FALSE,
     retrans_count |-> 0, control_sent |-> <<>>, data_sent |-> <<>>,
     wait_t3_retrans |-> FALSE, wait_fast_retrans |-> FALSE, fast_recovery |-> FALSE,
     random_value |-> RandomValue(id), last_time |-> FALSE, next_hb_sequence |-> 0,
     wait_hb_trans |-> FALSE, heartbeat_sent |-> {}, heartbeat_timeout |-> FALSE]

IsT1Chunk(chunk) == chunk.type \in {"Init", "CookieEcho"}

RECURSIVE FirstT1Chunk(_, _)
FirstT1Chunk(control_sent, i) ==
    IF i > Len(control_sent) THEN 0
    ELSE IF IsT1Chunk(control_sent[i]) THEN i
    ELSE FirstT1Chunk(control_sent, i + 1)

RECURSIVE SumBytes(_)
SumBytes(infos) ==
    IF infos = <<>> THEN 0 ELSE Head(infos).bytes_len + SumBytes(Tail(infos))

\* The count of one more loss on a path, without the guard on its state.
PathCountRetransUnguarded(path) ==
    [path EXCEPT !.retrans_count = @ + 1,
                 !.state = IF path.retrans_count + 1 >= MAX_PATH_RETRANS
                           THEN "InActive" ELSE @]

\* The retransmission counter of a path that is not yet InActive.
PathCountRetrans(path) ==
    IF path.state # "InActive"
    THEN [path EXCEPT !.retrans_count = @ + 1,
                      !.state = IF path.retrans_count + 1 >= MAX_PATH_RETRANS
                                THEN "InActive" ELSE @]
    ELSE path

\* on_t1_timeout(): [path, chunk]; chunk is <<>> or the chunk to send again.
PathOnT1Timeout(path, expired) ==
    IF ~path.t1_timeout \/ ~expired THEN [path |-> path, chunk |-> <<>>]
    ELSE LET i == FirstT1Chunk(path.control_sent, 1)
             p1 == [path EXCEPT !.t1_timeout = FALSE]
         IN IF i = 0 THEN [path |-> p1, chunk |-> <<>>]
            ELSE [path |-> PathCountRetrans([p1 EXCEPT !.control_sent = RemoveAt(@, i - 1)]),
                  chunk |-> <<path.control_sent[i]>>]

\* on_t3_retrans_timeout(): [path, fired].
PathOnT3RetransTimeoutKeepsCwnd(path, expired) ==
    IF ~path.t3_retrans_timeout \/ ~expired THEN [path |-> path, fired |-> FALSE]
    ELSE [path |-> [path EXCEPT !.t3_retrans_timeout = FALSE,
                                !.flight = @ - SumBytes(path.data_sent),
                                !.data_sent = <<>>,
                                !.wait_t3_retrans = TRUE],
          fired |-> TRUE]

PathOnT3RetransTimeout(path, expired) ==
    IF ~path.t3_retrans_timeout \/ ~expired THEN [path |-> path, fired |-> FALSE]
    ELSE [path |-> [PathCountRetrans(path) EXCEPT
                        !.t3_retrans_timeout = FALSE,
                        !.ssthresh = Max(path.mtu * 4, path.cwnd \div 2),
                        !.cwnd = path.mtu,
                        !.flight = @ - SumBytes(path.data_sent),
                        !.data_sent = <<>>,
                        !.wait_t3_retrans = TRUE],
          fired |-> TRUE]

\* The heartbeat info a HEARTBEAT or HEARTBEAT-ACK carries.
HbInfo(sequence, pathid, random_value) ==
    [sequence |-> sequence, pathid |-> pathid, random_value |-> random_value]

HasHbInfo(chunk) == {"sequence", "pathid", "random_value"} \subseteq DOMAIN chunk

PathOnControlSent(path, chunk) ==
    IF IsT1Chunk(chunk)
    THEN [path EXCEPT !.control_sent = Append(@, chunk), !.t1_timeout = TRUE,
                      !.last_time = TRUE]
    ELSE IF chunk.type = "Heartbeat" /\ HasHbInfo(chunk)
    THEN [path EXCEPT !.heartbeat_sent =
                          {h \in @ : h.sequence # chunk.sequence}
                          \cup {HbInfo(chunk.sequence, chunk.pathid, chunk.random_value)},
                      !.wait_hb_trans = FALSE, !.last_time = TRUE,
                      !.heartbeat_timeout = TRUE]
    ELSE path

\* on_idle_timeout(): [path, chunk]; idle tells that more than RTO + HB_INTERVAL
\* has passed since last_time.
PathOnIdleTimeout(path, idle) ==
    IF ~path.wait_hb_trans /\ (~path.last_time \/ idle)
    THEN [path |-> [path EXCEPT !.next_hb_sequence = @ + 1, !.wait_hb_trans = TRUE],
          chunk |-> <<[type |-> "Heartbeat", sequence |-> path.next_hb_sequence,
                       pathid |-> path.id, random_value |-> path.random_value]>>]
    ELSE [path |-> path, chunk |-> <<>>]

\* get_idle_timeout() gives the present time.
PathIdleDue(path, idle) ==
    IF path.last_time THEN idle ELSE path.next_hb_sequence = 0

\* on_heartbeats_lost(lost_hbs)
RECURSIVE PathOnHeartbeatsLost(_, _)
PathOnHeartbeatsLost(path, lost_hbs) ==
    IF lost_hbs = <<>> THEN path
    ELSE IF \E h \in path.heartbeat_sent : h.sequence = Head(lost_hbs)
    THEN PathOnHeartbeatsLost(
             PathCountRetrans([path EXCEPT !.heartbeat_sent =
                                   {h \in @ : h.sequence # Head(lost_hbs)}]),
             Tail(lost_hbs))
    ELSE PathOnHeartbeatsLost(path, Tail(lost_hbs))

\* on_heartbeats_timeout(): old is the set of the sequences of the HEARTBEATs
\* sent more than RTO ago, expired tells that heartbeat_timeout has passed.
PathOnHeartbeatsTimeout(path, old, expired) ==
    LET lost_hbs == SortedSeq({h.sequence : h \in path.heartbeat_sent} \cap old)
        checked == IF lost_hbs = <<>> THEN path ELSE PathOnHeartbeatsLost(path, lost_hbs)
    IN IF checked.heartbeat_timeout /\ expired
       THEN [checked EXCEPT !.heartbeat_timeout = FALSE] ELSE checked

\* SctpPath::on_heartbeatack_received() that compares the random value before
\* it takes the heartbeat out.
PathOnHeartbeatAckReceivedChecked(path, chunk) ==
    IF \E h \in path.heartbeat_sent :
           h.sequence = chunk.sequence /\ h.random_value = chunk.random_value
    THEN [path EXCEPT !.heartbeat_sent = {h \in @ : h.sequence # chunk.sequence},
                      !.confirmed = TRUE, !.heartbeat_timeout = FALSE]
    ELSE path

\* SctpPath::on_heartbeatack_received()
PathOnHeartbeatAckReceived(path, chunk) ==
    IF \E h \in path.heartbeat_sent : h.sequence = chunk.sequence
    THEN LET tmit_chunk == CHOOSE h \in path.heartbeat_sent : h.sequence = chunk.sequence
             removed == [path EXCEPT !.heartbeat_sent =
                                         {h \in @ : h.sequence # chunk.sequence}]
         IN IF tmit_chunk.random_value = chunk.random_value
            THEN [removed EXCEPT !.confirmed = TRUE, !.heartbeat_timeout = FALSE]
            ELSE removed
    ELSE path

PathOnT1ChunkReceivedKeepsTimer(path) ==
    LET i == FirstT1Chunk(path.control_sent, 1)
    IN IF i = 0 THEN [path |-> path, chunk |-> <<>>]
       ELSE [path |-> [path EXCEPT !.control_sent = RemoveAt(@, i - 1)],
             chunk |-> <<path.control_sent[i]>>]

\* on_t1_chunk_received(): [path, chunk]; T1 is cleared whatever is found.
PathOnT1ChunkReceived(path) ==
    LET i == FirstT1Chunk(path.control_sent, 1)
        p1 == [path EXCEPT !.t1_timeout = FALSE]
    IN IF i = 0 THEN [path |-> p1, chunk |-> <<>>]
       ELSE [path |-> [p1 EXCEPT !.control_sent = RemoveAt(@, i - 1)],
             chunk |-> <<path.control_sent[i]>>]

PathOnDataSent(path, tsn, bytes_len) ==
    [path EXCEPT !.data_sent = Append(@, [tsn |-> tsn, bytes_len |-> bytes_len,
                                          state |-> "Sent"]),
                 !.t3_retrans_timeout = TRUE,
                 !.last_time = TRUE,
                 !.flight = @ + bytes_len]


\* The state the recovery engine holds for tsn, "None" when it holds none.
StateOf(q, tsn) ==
    IF TsnQueueHas(q, tsn) THEN q.array[TsnQueueIndex(q, tsn)].state ELSE "None"

\* on_sack_received() hands an entry to on_data_acked() on these transitions.
PathAcks(info, new_state) ==
    (info.state = "Sent" /\ new_state = "GapAcked") \/ new_state = "CumAcked"

\* increase_cwnd(): slow start up to ssthresh, congestion avoidance above it.
IncreaseCwnd(path) ==
    IF path.cwnd <= path.ssthresh
    THEN [path EXCEPT !.cwnd = IF path.flight + path.ack >= path.cwnd
                                THEN @ + Max(path.ack, path.mtu) ELSE @,
                      !.ack = 0]
    ELSE LET pba == path.partial_bytes_acked + path.ack
         IN IF pba >= path.cwnd
            THEN [path EXCEPT !.cwnd = @ + path.mtu,
                              !.partial_bytes_acked = Max(pba - (path.cwnd + path.mtu), 0),
                              !.ack = 0]
            ELSE [path EXCEPT !.partial_bytes_acked = pba, !.ack = 0]

CongestionControlAlways(path) == IncreaseCwnd(path)

\* congestion_control(): no increase in fast recovery.
CongestionControl(path) == IF ~path.fast_recovery THEN IncreaseCwnd(path) ELSE path

\* SctpPath::on_sack_received(); q holds the states of SctpRecovery::data_sent.
PathOnSackReceived(path, q) ==
    IF q.array = <<>> \/ path.data_sent = <<>> THEN path
    ELSE LET acked == SelectSeq(path.data_sent,
                                LAMBDA d : StateOf(q, d.tsn) # "None"
                                           /\ PathAcks(d, StateOf(q, d.tsn)))
             sent == SelectSeq(acked, LAMBDA d : d.state = "Sent")
             cumacked == SelectSeq(sent, LAMBDA d : StateOf(q, d.tsn) = "CumAcked")
             kept == SelectSeq(path.data_sent,
                               LAMBDA d : ~(StateOf(q, d.tsn) # "None"
                                            /\ PathAcks(d, StateOf(q, d.tsn))))
             left == [i \in 1..Len(kept) |->
                        IF StateOf(q, kept[i].tsn) # "None"
                        THEN [kept[i] EXCEPT !.state = StateOf(q, kept[i].tsn)]
                        ELSE kept[i]]
             lowest == \E i \in 1..Len(path.data_sent) :
                           path.data_sent[i].tsn = q.smallest_tsn
         IN CongestionControl(
                [path EXCEPT !.data_sent = left,
                             !.flight = @ - SumBytes(sent),
                             !.ack = @ + SumBytes(cumacked),
                             !.t3_retrans_timeout =
                                 IF left = <<>> THEN FALSE
                                 ELSE IF lowest /\ q.array[1].state \in {"GapAcked", "CumAcked"}
                                 THEN TRUE ELSE @])

\* The assert!(tsn >= data_sent_state.smallest_tsn) of the two loops over a path.
PathTsnAssert(path, q) ==
    q.array = <<>> \/ \A i \in 1..Len(path.data_sent) :
                          SerialGe(path.data_sent[i].tsn, q.smallest_tsn)

\* SctpPath::check_datas_lost() with on_datas_lost(): [path, lost].
PathCheckDatasLost(path, q) ==
    IF q.array = <<>> \/ path.data_sent = <<>> THEN [path |-> path, lost |-> FALSE]
    ELSE LET gone == SelectSeq(path.data_sent,
                               LAMBDA d : StateOf(q, d.tsn) \in {"None", "Lost"})
         IN IF gone = <<>> THEN [path |-> path, lost |-> FALSE]
            ELSE [path |-> [path EXCEPT
                      !.data_sent = SelectSeq(@, LAMBDA d :
                                        StateOf(q, d.tsn) \notin {"None", "Lost"}),
                      !.flight = @ - SumBytes(SelectSeq(gone, LAMBDA d : d.state = "Sent")),
                      !.wait_fast_retrans = TRUE],
                  lost |-> TRUE]

PathOnEnterRecovery(path) ==
    [path EXCEPT !.ssthresh = Max(path.cwnd \div 2, 4 * path.mtu),
                 !.cwnd = Max(path.cwnd \div 2, 4 * path.mtu),
                 !.fast_recovery = TRUE]

\* ------------------------------------------------------------------------
\* SctpRecovery (sctp_recovery.rs)
\* ------------------------------------------------------------------------
\* control_waiting_trans is kept as the sequence of its values in key order;
\* panic records a failed assert!/unwrap() inside the engine.
SctpRecoveryNew(tsn) ==
    [established |-> FALSE, shutdown_pending |-> FALSE, shutdown_received |-> FALSE,
     rwnd |-> 0, fast_recovery |-> FALSE, recovery_point |-> None,
     path_list |-> <<>>, primary_path |-> None,
     largest_tsn |-> TsnSub(tsn, 1), cum_ack |-> TsnSub(tsn, 1),
     highest_ack |-> TsnSub(tsn, 1), highest_newly_ack |-> None,
     peer_cumulative_tsn_ack |-> None, total_flight |-> 0,
     t2_shutdown_timeout |-> FALSE, data_sent |-> TsnQueueNew(tsn),
     control_waiting_trans |-> <<>>, tsn_waiting_t3_retrans |-> BTreeNew,
     tsn_waiting_fast_retrans |-> BTreeNew, panic |-> FALSE]

SctpTransmitDataNew(chunk, bytes_len, tsn, pathid) ==
    [chunk |-> <<chunk>>, pathid |-> pathid, tsn |-> tsn, state |-> "Sent",
     bytes_len |-> bytes_len, retrans |-> FALSE, fast_retrans |-> FALSE,
     miss_indications |-> 0]

Panic(r) == [r EXCEPT !.panic = TRUE]
HasPath(r, pathid) == pathid >= 0 /\ pathid < Len(r.path_list)
PathIds(r) == 0..(Len(r.path_list) - 1)

Initialize(r, rwnd) == [r EXCEPT !.rwnd = rwnd]
Establish(r) == [r EXCEPT !.established = TRUE]
AddPath(r, mtu) == [r EXCEPT !.path_list = Append(@, SctpPathNew(Len(r.path_list), mtu))]
GetNextTsn(r) == [r EXCEPT !.largest_tsn = TsnAdd(@, 1)]
ConfirmPath(r, pathid) ==
    [r EXCEPT !.path_list[pathid + 1].confirmed = TRUE,
              !.path_list[pathid + 1].last_time = TRUE,
              !.path_list[pathid + 1].random_value = 0]

\* set_primary_path(): [r, ok].
SetPrimaryPath(r, pathid) ==
    IF HasPath(r, pathid) /\ r.path_list[pathid + 1].confirmed
       /\ r.path_list[pathid + 1].state = "Active"
    THEN [r |-> [r EXCEPT !.primary_path = pathid], ok |-> TRUE]
    ELSE [r |-> r, ok |-> FALSE]

GetAvailableCwnd(r, pathid) ==
    Max(r.path_list[pathid + 1].cwnd - r.path_list[pathid + 1].flight, 0)

GetAvailableWindow(r, pathid) ==
    Min(Max(r.rwnd - r.path_list[pathid + 1].flight, 0), GetAvailableCwnd(r, pathid))

\* pop_retrans_chunk(): [r, chunk]; chunk is <<>> unless tsn is Lost.
PopRetransChunk(r, tsn) ==
    LET i == TsnQueueIndex(r.data_sent, tsn)
    IN IF TsnQueueHas(r.data_sent, tsn) /\ r.data_sent.array[i].state = "Lost"
          /\ r.data_sent.array[i].chunk # <<>>
       THEN [r |-> [r EXCEPT !.data_sent.array[i].chunk = <<>>],
             chunk |-> r.data_sent.array[i].chunk]
       ELSE [r |-> r, chunk |-> <<>>]

\* enter_t3_retrans() / enter_fast_retrans(): [r, entered].
EnterT3Retrans(r, pathid) ==
    IF HasPath(r, pathid) /\ r.path_list[pathid + 1].wait_t3_retrans
    THEN [r |-> [r EXCEPT !.path_list[pathid + 1].wait_t3_retrans = FALSE], entered |-> TRUE]
    ELSE [r |-> r, entered |-> FALSE]

EnterFastRetrans(r, pathid) ==
    IF HasPath(r, pathid) /\ r.path_list[pathid + 1].wait_fast_retrans
    THEN [r |-> [r EXCEPT !.path_list[pathid + 1].wait_fast_retrans = FALSE], entered |-> TRUE]
    ELSE [r |-> r, entered |-> FALSE]

QueueControl(r, chunk, pathid) ==
    [r EXCEPT !.control_waiting_trans = Append(@, [chunk |-> chunk, pathid |-> pathid])]

PrimaryOrZero(r) == IF r.primary_path = None THEN 0 ELSE r.primary_path

RecoveryOnControlSent(r, chunk, pathid) ==
    IF ~HasPath(r, pathid) THEN Panic(r)
    ELSE IF chunk.type \in {"Shutdown", "ShutdownAck"}
    THEN [r EXCEPT !.t2_shutdown_timeout = TRUE]
    ELSE [r EXCEPT !.path_list[pathid + 1] = PathOnControlSent(@, chunk)]

\* on_t1_chunk_received(): the paths in order, up to the first that held a chunk.
RECURSIVE RecoveryOnT1ChunkReceivedFrom(_, _)
RecoveryOnT1ChunkReceivedFrom(r, i) ==
    IF i > Len(r.path_list) THEN [r |-> r, chunk |-> <<>>]
    ELSE LET p == PathOnT1ChunkReceived(r.path_list[i])
             r1 == [r EXCEPT !.path_list[i] = p.path]
         IN IF p.chunk # <<>> THEN [r |-> r1, chunk |-> p.chunk]
            ELSE RecoveryOnT1ChunkReceivedFrom(r1, i + 1)

RecoveryOnT1ChunkReceived(r) == RecoveryOnT1ChunkReceivedFrom(r, 1)

\* on_data_sent(chunk, pathid, now, retrans)
RecoveryOnDataSent(r, chunk, pathid, retrans) ==
    IF ~r.established THEN r
    ELSE LET tsn == chunk.tsn
             bytes_len == ChunkBytesLen(chunk)
             i == TsnQueueIndex(r.data_sent, tsn)
         IN IF ~SerialGt(tsn, r.cum_ack) \/ ~HasPath(r, pathid) THEN Panic(r)
            ELSE IF TsnQueueHas(r.data_sent, tsn)
            THEN IF r.data_sent.array[i].chunk # <<>> THEN Panic(r)
                 ELSE [r EXCEPT !.path_list[pathid + 1] = PathOnDataSent(@, tsn, bytes_len),
                                !.data_sent.array[i].state = "Sent",
                                !.data_sent.array[i].chunk = <<chunk>>,
                                !.data_sent.array[i].retrans = retrans,
                                !.total_flight = @ + bytes_len]
            ELSE IF retrans \/ i # Len(r.data_sent.array) + 1 THEN Panic(r)
            ELSE [r EXCEPT !.path_list[pathid + 1] = PathOnDataSent(@, tsn, bytes_len),
                           !.data_sent.array =
                               Append(@, SctpTransmitDataNew(chunk, bytes_len, tsn, pathid)),
                           !.total_flight = @ + bytes_len]

RecoveryOnExitRecovery(r) ==
    [r EXCEPT !.fast_recovery = FALSE, !.recovery_point = None,
              !.path_list = [i \in 1..Len(@) |-> [@[i] EXCEPT !.fast_recovery = FALSE]]]

RecoveryOnEnterRecovery(r, pathid) ==
    IF r.fast_recovery THEN r
    ELSE LET r1 == [r EXCEPT !.fast_recovery = TRUE, !.recovery_point = r.largest_tsn]
         IN IF HasPath(r, pathid)
            THEN [r1 EXCEPT !.path_list[pathid + 1] = PathOnEnterRecovery(@)]
            ELSE r1

\* on_data_acked() leaving fast recovery at the first cumulative ack.
RecoveryOnDataAckedExitsEarly(r, tsn, state) ==
    IF SerialLt(tsn, r.cum_ack) \/ SerialGt(tsn, r.largest_tsn) THEN r
    ELSE LET r1 == IF state = "CumAcked" THEN RecoveryOnExitRecovery(r) ELSE r
             i == TsnQueueIndex(r.data_sent, tsn)
         IN IF ~TsnQueueHas(r.data_sent, tsn) THEN Panic(r1)
            ELSE [r1 EXCEPT !.total_flight = IF r.data_sent.array[i].state = "Sent"
                                             THEN @ - r.data_sent.array[i].bytes_len ELSE @,
                            !.data_sent.array[i].state = state]

\* on_data_acked(tsn, state), state being CumAcked or GapAcked.
RecoveryOnDataAcked(r, tsn, state) ==
    IF SerialLt(tsn, r.cum_ack) \/ SerialGt(tsn, r.largest_tsn) THEN r
    ELSE LET r1 == IF r.recovery_point = tsn /\ state = "CumAcked"
                   THEN RecoveryOnExitRecovery(r) ELSE r
             i == TsnQueueIndex(r.data_sent, tsn)
         IN IF ~TsnQueueHas(r.data_sent, tsn) THEN Panic(r1)
            ELSE [r1 EXCEPT !.total_flight = IF r.data_sent.array[i].state = "Sent"
                                             THEN @ - r.data_sent.array[i].bytes_len ELSE @,
                            !.data_sent.array[i].state = state]

\* The loops of on_sack_received() over n consecutive TSNs starting at tsn.
RECURSIVE AckRange(_, _, _, _)
AckRange(r, tsn, n, state) ==
    IF n <= 0 \/ r.panic THEN r
    ELSE AckRange(RecoveryOnDataAcked(r, tsn, state), TsnAdd(tsn, 1), n - 1, state)

RECURSIVE AckBlocks(_, _, _)
AckBlocks(r, cum_ack, gap_acks) ==
    IF gap_acks = <<>> THEN r
    ELSE AckBlocks(AckRange(r, TsnAdd(cum_ack, Head(gap_acks).start),
                            Head(gap_acks).end - Head(gap_acks).start + 1, "GapAcked"),
                   cum_ack, Tail(gap_acks))

RECURSIVE BTreeInsertAll(_, _)
BTreeInsertAll(m, vs) ==
    IF vs = <<>> THEN m ELSE BTreeInsertAll(BTreeInsert(m, Head(vs)), Tail(vs))

\* check_datas_lost()
RecoveryCheckDatasLost(r) ==
    LET arr == r.data_sent.array
        hna == r.highest_newly_ack
        tsnOf(i) == TsnQueueTsn(r.data_sent, i)
        mi(i) == arr[i].miss_indications
                 + (IF hna # None /\ SerialLt(tsnOf(i), hna) THEN 1 ELSE 0)
        isLost(i) == arr[i].state = "Sent" /\ mi(i) >= DUP_THRESH
        arr1 == [i \in 1..Len(arr) |->
                    IF arr[i].state # "Sent" THEN arr[i]
                    ELSE IF isLost(i)
                    THEN [arr[i] EXCEPT !.miss_indications = 0, !.state = "Lost"]
                    ELSE [arr[i] EXCEPT !.miss_indications = mi(i)]]
        q1 == [r.data_sent EXCEPT !.array = arr1]
        pr == [p \in 1..Len(r.path_list) |-> PathCheckDatasLost(r.path_list[p], q1)]
        lost_pathid == {p - 1 : p \in {x \in 1..Len(pr) : pr[x].lost}}
        lost == {i \in 1..Len(arr) : isLost(i)}
        queued == {i \in lost : arr[i].pathid \in lost_pathid /\ ~arr[i].fast_retrans}
        entry(i) == [tsn |-> tsnOf(i), pathid |-> arr[i].pathid,
                     bytes_len |-> arr[i].bytes_len,
                     first |-> ~\E j \in queued : j < i /\ arr[j].pathid = arr[i].pathid]
        entries(qs) == [k \in 1..Len(qs) |-> entry(qs[k])]
        arr2 == [i \in 1..Len(arr) |->
                    IF i \in queued THEN [arr1[i] EXCEPT !.fast_retrans = TRUE] ELSE arr1[i]]
        Result(r1) == IF lost = {} THEN r1
                      ELSE RecoveryOnEnterRecovery(r1, arr[SetMin(lost)].pathid)
    IN Result([r EXCEPT !.data_sent.array = arr2,
                        !.path_list = [p \in 1..Len(pr) |-> pr[p].path],
                        !.tsn_waiting_fast_retrans =
                            BTreeInsertAll(@, entries(SortedSeq(queued))),
                        !.total_flight = @ - SumBytes([k \in 1..Cardinality(lost) |->
                                                          arr[SortedSeq(lost)[k]]]),
                        !.panic = @ \/ \E p \in 1..Len(r.path_list) :
                                          ~PathTsnAssert(r.path_list[p], q1)])

\* on_sack_received(): the TSNs the SACK acknowledges, cumulatively and in its
\* gap-ack blocks.
SackAcked(r, sack) ==
    AckBlocks(IF SerialLt(r.cum_ack, sack.cum_ack)
              THEN [AckRange([r EXCEPT !.rwnd = sack.a_rwnd], TsnAdd(r.cum_ack, 1),
                             TsnSub(sack.cum_ack, r.cum_ack), "CumAcked")
                       EXCEPT !.cum_ack = sack.cum_ack]
              ELSE [r EXCEPT !.rwnd = sack.a_rwnd],
              sack.cum_ack, sack.gap_acks)

\* on_sack_received(): highest_ack and highest_newly_ack.
SackHighest(r2, sack) ==
    LET last_ack == IF sack.gap_acks = <<>> THEN sack.cum_ack
                    ELSE TsnAdd(sack.cum_ack, sack.gap_acks[Len(sack.gap_acks)].end)
    IN IF SerialGt(last_ack, r2.highest_ack)
       THEN [r2 EXCEPT !.highest_ack = last_ack, !.highest_newly_ack = last_ack]
       ELSE [r2 EXCEPT !.highest_newly_ack = None]

\* on_sack_received(): every path takes the SACK.
SackPaths(r3) ==
    [r3 EXCEPT !.path_list = [p \in 1..Len(@) |-> PathOnSackReceived(@[p], r3.data_sent)],
               !.panic = @ \/ \E p \in 1..Len(r3.path_list) :
                              ~PathTsnAssert(r3.path_list[p], r3.data_sent)]

\* on_sack_received(): the cumulatively acknowledged entries leave data_sent.
SackDrain(r4, smallest_tsn) ==
    LET Drained(d) == [r4 EXCEPT !.data_sent = d.q, !.panic = @ \/ d.panic]
    IN IF SerialLe(smallest_tsn, r4.cum_ack)
       THEN Drained(TsnQueueDrain(r4.data_sent, smallest_tsn, TsnAdd(r4.cum_ack, 1)))
       ELSE r4

SackLost(r2, sack, smallest_tsn) ==
    LET Result(r5) == IF r2.panic \/ r5.panic THEN Panic(r5) ELSE RecoveryCheckDatasLost(r5)
    IN Result(SackDrain(SackPaths(SackHighest(r2, sack)), smallest_tsn))

\* on_sack_received(chunk, now)
RecoveryOnSackReceived(r, sack) ==
    IF SerialLt(sack.cum_ack, r.cum_ack) THEN r
    ELSE IF r.data_sent.smallest_tsn # TsnAdd(r.cum_ack, 1) THEN Panic(r)
    ELSE SackLost(SackAcked(r, sack), sack, r.data_sent.smallest_tsn)

\* SctpRecovery::on_t1_timeout(): every path whose T1 has expired gives back its
\* INIT / COOKIE-ECHO, which is queued again.
RECURSIVE RecoveryOnT1TimeoutFrom(_, _, _)
RecoveryOnT1TimeoutFrom(r, t1, i) ==
    IF i > Len(r.path_list) THEN r
    ELSE LET Queued(p) ==
                 IF p.chunk = <<>> THEN [r EXCEPT !.path_list[i] = p.path]
                 ELSE QueueControl([r EXCEPT !.path_list[i] = p.path], p.chunk[1], i - 1)
         IN RecoveryOnT1TimeoutFrom(Queued(PathOnT1Timeout(r.path_list[i], (i - 1) \in t1)),
                                    t1, i + 1)

\* SctpRecovery::on_t3_retrans_timeout()
RecoveryOnT3RetransTimeout(r, t3) ==
    LET pr == [p \in 1..Len(r.path_list) |->
                  PathOnT3RetransTimeout(r.path_list[p], (p - 1) \in t3)]
        timeout_pathid == {p - 1 : p \in {x \in 1..Len(pr) : pr[x].fired}}
        arr == r.data_sent.array
        hit == {i \in 1..Len(arr) : arr[i].pathid \in timeout_pathid}
        hs == SortedSeq(hit)
        entry(i) == [tsn |-> TsnQueueTsn(r.data_sent, i), pathid |-> arr[i].pathid,
                     bytes_len |-> arr[i].bytes_len,
                     first |-> ~\E j \in hit : j < i /\ arr[j].pathid = arr[i].pathid]
    IN [r EXCEPT !.path_list = [p \in 1..Len(pr) |-> pr[p].path],
                 !.tsn_waiting_t3_retrans =
                     BTreeInsertAll(@, [k \in 1..Len(hs) |-> entry(hs[k])]),
                 !.total_flight = @ - SumBytes(SelectSeq([k \in 1..Len(hs) |-> arr[hs[k]]],
                                                         LAMBDA d : d.state = "Sent")),
                 !.data_sent.array = [i \in 1..Len(arr) |->
                                         IF i \in hit THEN [arr[i] EXCEPT !.state = "Lost"]
                                         ELSE arr[i]]]

CheckShutdownReadyNever(r) == [r |-> r, ready |-> FALSE]

\* check_shutdown_ready(): [r, ready]
CheckShutdownReady(r) ==
    IF r.data_sent.array = <<>>
    THEN IF r.shutdown_pending /\ (r.shutdown_received \/ r.peer_cumulative_tsn_ack = None)
         THEN [r |-> Panic(r), ready |-> TRUE]
         ELSE LET r1 == IF r.shutdown_pending
                        THEN QueueControl(r, [type |-> "Shutdown",
                                              cum_ack |-> r.peer_cumulative_tsn_ack],
                                          PrimaryOrZero(r))
                        ELSE r
                  r2 == IF r.shutdown_received
                        THEN QueueControl(r1, [type |-> "ShutdownAck"], PrimaryOrZero(r))
                        ELSE r1
              IN [r |-> r2, ready |-> TRUE]
    ELSE [r |-> r, ready |-> FALSE]

\* on_t2_shutdown_timeout()
RecoveryOnT2ShutdownTimeout(r) ==
    IF r.shutdown_pending /\ (r.shutdown_received \/ r.peer_cumulative_tsn_ack = None)
    THEN Panic(r)
    ELSE LET r1 == IF r.shutdown_pending
                   THEN QueueControl(r, [type |-> "Shutdown",
                                         cum_ack |-> r.peer_cumulative_tsn_ack],
                                     PrimaryOrZero(r))
                   ELSE r
         IN IF r.shutdown_received
            THEN QueueControl(r1, [type |-> "ShutdownAck"], PrimaryOrZero(r))
            ELSE r1

\* on_enter_shutdown(cumulative_tsn_ack): [r, ready]
RecoveryOnEnterShutdown(r, cumulative_tsn_ack) ==
    LET r1 == [r EXCEPT !.peer_cumulative_tsn_ack = cumulative_tsn_ack]
    IN IF r1.shutdown_received THEN CheckShutdownReady(r1)
       ELSE IF ~r1.shutdown_pending
       THEN CheckShutdownReady([r1 EXCEPT !.established = FALSE, !.shutdown_pending = TRUE])
       ELSE CheckShutdownReady(r1)

\* on_shutdown_received(): [r, ready]
RecoveryOnShutdownReceived(r) ==
    LET r1 == [r EXCEPT !.shutdown_pending = FALSE]
    IN IF ~r1.shutdown_received
       THEN CheckShutdownReady([r1 EXCEPT !.established = FALSE, !.shutdown_received = TRUE])
       ELSE CheckShutdownReady(r1)

RecoveryOnShutdownAckReceived(r) ==
    QueueControl([r EXCEPT !.t2_shutdown_timeout = FALSE],
                 [type |-> "ShutdownComplete", t_bit |-> FALSE], PrimaryOrZero(r))

\* The timers of the engine that on_timeout() would find expired, given the set
\* exp of timers whose deadline has passed: T1 only before establishment, T3
\* only while established or shutdown-pending, T2 only while shutting down.
RecoveryOnTimeoutT1(r, exp) ==
    IF ~r.established /\ \E p \in PathIds(r) : r.path_list[p + 1].t1_timeout /\ p \in exp.t1
    THEN RecoveryOnT1TimeoutFrom(r, exp.t1, 1) ELSE r

RecoveryOnTimeoutT3(r1, exp) ==
    IF (r1.established \/ r1.shutdown_pending)
       /\ \E p \in PathIds(r1) : r1.path_list[p + 1].t3_retrans_timeout /\ p \in exp.t3
    THEN RecoveryOnT3RetransTimeout(r1, exp.t3) ELSE r1

RecoveryOnTimeoutT2(r2, exp) ==
    IF (r2.shutdown_pending \/ r2.shutdown_received) /\ r2.t2_shutdown_timeout /\ exp.t2
    THEN RecoveryOnT2ShutdownTimeout(r2) ELSE r2

\* SctpRecovery::on_heartbeats_timeout(): every path looks for its lost HEARTBEATs.
\* The HEARTBEATs of a path whose heartbeat timer has expired are older than
\* its RTO, the timer being set anew with every HEARTBEAT sent.
RecoveryOnHeartbeatsTimeout(r, hb) ==
    [r EXCEPT !.path_list =
        [p \in 1..Len(r.path_list) |->
            PathOnHeartbeatsTimeout(r.path_list[p],
                                    IF (p - 1) \in hb
                                    THEN {h.sequence : h \in r.path_list[p].heartbeat_sent}
                                    ELSE {},
                                    (p - 1) \in hb)]]

\* SctpRecovery::on_idle_timeout(): the HEARTBEAT of every idle path is queued.
RECURSIVE RecoveryOnIdleTimeoutFrom(_, _, _)
RecoveryOnIdleTimeoutFrom(r, idle, i) ==
    IF i > Len(r.path_list) THEN r
    ELSE LET Queued(p) ==
                 IF p.chunk = <<>> THEN r
                 ELSE QueueControl([r EXCEPT !.path_list[i] = p.path], p.chunk[1], i - 1)
         IN RecoveryOnIdleTimeoutFrom(Queued(PathOnIdleTimeout(r.path_list[i], (i - 1) \in idle)),
                                      idle, i + 1)

\* SctpRecovery::on_heartbeatack_received()
RecoveryOnHeartbeatAckReceived(r, chunk) ==
    IF ~HasPath(r, chunk.pathid) THEN Panic(r)
    ELSE [r EXCEPT !.path_list[chunk.pathid + 1] = PathOnHeartbeatAckReceived(@, chunk)]

RecoveryOnTimeoutHeartbeats(r, exp) ==
    IF r.established
       /\ \E p \in PathIds(r) : r.path_list[p + 1].heartbeat_timeout /\ p \in exp.hb
    THEN RecoveryOnHeartbeatsTimeout(r, exp.hb) ELSE r

RecoveryOnTimeoutIdle(r, exp) ==
    IF r.established /\ \E p \in PathIds(r) : PathIdleDue(r.path_list[p + 1], p \in exp.idle)
    THEN RecoveryOnIdleTimeoutFrom(r, exp.idle, 1) ELSE r

\* on_timeout(): T1, the heartbeat timers, T3, T2 and the idle timers, in this
\* order.
RecoveryOnTimeout(r, exp) ==
    RecoveryOnTimeoutIdle(
        RecoveryOnTimeoutT2(
            RecoveryOnTimeoutT3(
                RecoveryOnTimeoutHeartbeats(RecoveryOnTimeoutT1(r, exp), exp), exp), exp), exp)

\* SctpPath::get_idle_timeout() gives a deadline: a path that has sent
\* something always has one, a path that has not only before its first
\* HEARTBEAT.
PathGetIdleTimeout(path) == path.last_time \/ path.next_hb_sequence = 0

\* SctpRecovery::get_timeout() gives a deadline.
RecoveryGetTimeout(r) ==
    \/ ~r.established /\ \E p \in PathIds(r) : r.path_list[p + 1].t1_timeout
    \/ r.established /\ \E p \in PathIds(r) : PathGetIdleTimeout(r.path_list[p + 1])
    \/ r.established /\ \E p \in PathIds(r) : r.path_list[p + 1].heartbeat_timeout
    \/ /\ r.established \/ r.shutdown_pending
       /\ \E p \in PathIds(r) : r.path_list[p + 1].t3_retrans_timeout
    \/ (r.shutdown_pending \/ r.shutdown_received) /\ r.t2_shutdown_timeout

\* ------------------------------------------------------------------------
\* SctpAssociation (lib.rs)
\* ------------------------------------------------------------------------
\* A packet is [header, chunks]; header is [src_port, dst_port, vtag].  The
\* checksum is left out.  raddr_list and laddr_list hold the addresses, the
\* path of an address being its position counted from 0.  The counters that
\* are only traced and the heartbeat machinery are left out.
MAX_BURST == 4
DEFAULT_ACK_FREQ == 2
DEFAULT_MTU == 1500
COMMON_HEADER_LEN == 12
DATA_HEADER_LEN == 16
MY_A_RWND == 65536
MY_NUM_OUT_STRM == 10
MY_NUM_IN_STRM == 2048
MAC_LEN == 32

SctpAssociationNew(src_port, dst_port, vtag, a_rwnd, init_tsn) ==
    [src_port |-> src_port, dst_port |-> dst_port, my_vtag |-> vtag, peer_vtag |-> 0,
     state |-> "Closed", a_rwnd |-> a_rwnd, initial_tsn |-> init_tsn,
     raddr_list |-> <<>>, laddr_list |-> <<>>,
     delayed_ack |-> TRUE, num_data_pkts_seen |-> 0, ack_freq |-> DEFAULT_ACK_FREQ,
     delayed_ack_timeout |-> FALSE, send_sack |-> FALSE, last_data_from |-> None,
     mapping_array |-> MANew, recovery |-> SctpRecoveryNew(init_tsn),
     stream_in |-> <<>>, stream_out |-> <<>>, control_waiting_trans |-> <<>>,
     send_burst_count |-> 0, panic |-> FALSE]

AssocPanic(a) == [a EXCEPT !.panic = TRUE]
Panicked(a) == a.panic \/ a.recovery.panic

RECURSIVE IndexOf(_, _, _)
IndexOf(list, x, i) ==
    IF i > Len(list) THEN None
    ELSE IF list[i] = x THEN i - 1 ELSE IndexOf(list, x, i + 1)

GetPathid(a, addr) == IndexOf(a.raddr_list, addr, 1)
GetRemoteIp(a, pathid) == a.raddr_list[pathid + 1]
GetPrimaryPath(a) == a.recovery.primary_path

\* add_raddr(): [a, res, pathid]; an address already in the list gives Done.
\* Every address is an IPv4 address.
AddRaddr(a, addr) ==
    IF GetPathid(a, addr) # None THEN [a |-> a, res |-> "Done", pathid |-> None]
    ELSE [a |-> [a EXCEPT !.raddr_list = Append(@, addr),
                          !.recovery = AddPath(@, DEFAULT_MTU - 20 - 8 - 12)],
          res |-> "Ok", pathid |-> Len(a.raddr_list)]

RECURSIVE AddRaddrs(_, _)
AddRaddrs(a, addrs) ==
    IF addrs = <<>> THEN a ELSE AddRaddrs(AddRaddr(a, Head(addrs)).a, Tail(addrs))

AddLaddr(a, addr) == [a EXCEPT !.laddr_list = Append(@, addr)]

StreamOutNew(strmid) == [stream_id |-> strmid, next_seq |-> 0, pending_queue |-> <<>>]
GenerateStreamIn(a, n) == [a EXCEPT !.stream_in = [i \in 1..n |-> StreamInNew(i - 1)]]
GenerateStreamOut(a, n) == [a EXCEPT !.stream_out = [i \in 1..n |-> StreamOutNew(i - 1)]]

InitChunk(type, tag, tsn, params) ==
    [type |-> type, init_tag |-> tag, a_rwnd |-> MY_A_RWND,
     num_out_strm |-> MY_NUM_OUT_STRM, num_in_strm |-> MY_NUM_IN_STRM,
     init_tsn |-> tsn, params |-> params]

\* connect(): my_vtag and init_tsn are the two random draws.
Connect(src_port, dst_port, src_ip_list, dst_ip, my_vtag, init_tsn) ==
    LET a0 == SctpAssociationNew(src_port, dst_port, my_vtag, MY_A_RWND, init_tsn)
        a1 == [a0 EXCEPT !.laddr_list = src_ip_list]
        ar == AddRaddr(a1, dst_ip)
    IN [ar.a EXCEPT !.state = "CookieWait",
                    !.control_waiting_trans =
                        Append(@, [chunk |-> InitChunk("Init", my_vtag, init_tsn,
                                                       src_ip_list),
                                   pathid |-> ar.pathid])]

\* ------------------------------------------------------------------------
\* SctpStateCookie (sctp_pkt.rs): the bytes of a cookie are [len, body, tag].
\* The tag is an ideal MAC: equal tags mean equal key and equal body.  The
\* time stamp is never read back and is left out of the body.
\* ------------------------------------------------------------------------
Hmac(key, body) == [key |-> key, body |-> body]

StateCookieBodyLen(cookie) ==
    ChunkBytesLen(cookie.init) + ChunkBytesLen(cookie.init_ack) + 4 + 4 + 2 + 2 + 8 + 8

StateCookieToBytes(cookie, key) ==
    [len |-> StateCookieBodyLen(cookie) + MAC_LEN, body |-> cookie, tag |-> Hmac(key, cookie)]

StateCookieFromBytesUnchecked(key, bytes) ==
    IF bytes.len < MAC_LEN THEN [res |-> "BufferTooShort", cookie |-> <<>>]
    ELSE [res |-> "Ok", cookie |-> <<bytes.body>>]

\* from_bytes(): [res, cookie].
StateCookieFromBytes(key, bytes) ==
    IF bytes.len < MAC_LEN THEN [res |-> "BufferTooShort", cookie |-> <<>>]
    ELSE IF Hmac(key, bytes.body) # bytes.tag THEN [res |-> "InvalidChunk", cookie |-> <<>>]
    ELSE [res |-> "Ok", cookie |-> <<bytes.body>>]

InitAckChunk(tag, tsn, cookie) ==
    [type |-> "InitAck", init_tag |-> tag, a_rwnd |-> MY_A_RWND,
     num_out_strm |-> MY_NUM_OUT_STRM, num_in_strm |-> MY_NUM_IN_STRM,
     init_tsn |-> tsn, params |-> <<>>, cookie |-> cookie]

AbortChunk(t_bit, error_cause) ==
    [type |-> "Abort", t_bit |-> t_bit, error_cause |-> error_cause]

Packet(src_port, dst_port, vtag, chunks) ==
    [header |-> [src_port |-> src_port, dst_port |-> dst_port, vtag |-> vtag],
     chunks |-> chunks]

\* handle_ootb() that answers every chunk with an ABORT.
HandleOotbAborts(header, chunk) ==
    IF chunk.type \in {"Abort", "ShutdownComplete"} THEN <<>>
    ELSE <<Packet(header.dst_port, header.src_port, header.vtag,
                  <<AbortChunk(TRUE, "None")>>)>>

\* handle_ootb(): the packets written into sbuf.
HandleOotb(header, chunk) ==
    IF chunk.type \in {"Abort", "ShutdownComplete"} THEN <<>>
    ELSE <<Packet(header.dst_port, header.src_port, header.vtag,
                  <<IF chunk.type = "ShutdownAck"
                    THEN [type |-> "ShutdownComplete", t_bit |-> TRUE]
                    ELSE AbortChunk(TRUE, "None")>>)>>

\* accept() on an INIT: my_vtag and init_tsn are the two random draws.
AcceptInit(rip, header, init, secret_key, my_vtag, init_tsn) ==
    LET cookie == [init |-> init,
                   init_ack |-> InitAckChunk(my_vtag, init_tsn, <<>>),
                   my_vtag |-> my_vtag, peer_vtag |-> init.init_tag,
                   src_port |-> header.dst_port, dst_port |-> header.src_port,
                   dst_addr |-> rip]
        cookie_bytes == StateCookieToBytes(cookie, secret_key)
    IN [res |-> "Ok", assoc |-> <<>>,
        sbuf |-> <<Packet(header.dst_port, header.src_port, init.init_tag,
                          <<InitAckChunk(my_vtag, init_tsn, <<cookie_bytes>>)>>)>>]

\* accept() on a COOKIE-ECHO.
AcceptCookieEcho(chunk, secret_key) ==
    LET c == StateCookieFromBytes(secret_key, chunk.cookie) IN
    IF c.res # "Ok" THEN [res |-> c.res, assoc |-> <<>>, sbuf |-> <<>>]
    ELSE
      LET cookie == c.cookie[1]
          init == cookie.init
          init_ack == cookie.init_ack
          a0 == SctpAssociationNew(cookie.src_port, cookie.dst_port, cookie.my_vtag,
                                   init_ack.a_rwnd, init_ack.init_tsn)
          a1 == [a0 EXCEPT !.mapping_array = MAInitialize(init.init_tsn),
                           !.peer_vtag = cookie.peer_vtag]
          a2 == GenerateStreamIn(a1, Min(init_ack.num_in_strm, init.num_out_strm))
          a3 == GenerateStreamOut(a2, Min(init_ack.num_out_strm, init.num_in_strm))
          a4 == AddRaddrs(a3, init.params)
          known == GetPathid(a4, cookie.dst_addr)
          a5 == IF known # None THEN a4 ELSE AddRaddr(a4, cookie.dst_addr).a
          pathid == IF known # None THEN known ELSE Len(a4.raddr_list)
          r1 == ConfirmPath(Establish(Initialize(a5.recovery, init.a_rwnd)), pathid)
          r2 == SetPrimaryPath(r1, pathid)
      IN [res |-> "Ok",
          assoc |-> <<[a5 EXCEPT !.recovery = r2.r,
                                 !.panic = ~r2.ok,
                                 !.state = "Established",
                                 !.control_waiting_trans =
                                     Append(@, [chunk |-> [type |-> "CookieAck"],
                                                pathid |-> pathid])]>>,
          sbuf |-> <<>>]

\* accept(rip, header, rbuf, sbuf, secret_key) looks at the first chunk only:
\* [res, assoc, sbuf], assoc being <<>> or the new association.
Accept(rip, header, chunks, secret_key, my_vtag, init_tsn) ==
    LET chunk == Head(chunks) IN
    IF chunk.type = "Init" THEN AcceptInit(rip, header, chunk, secret_key, my_vtag, init_tsn)
    ELSE IF chunk.type = "CookieEcho" THEN AcceptCookieEcho(chunk, secret_key)
    ELSE [res |-> "Ok", assoc |-> <<>>, sbuf |-> HandleOotb(header, chunk)]

\* ------------------------------------------------------------------------
\* SctpAssociation::recv (lib.rs)
\* ------------------------------------------------------------------------
\* abort(): [a, sbuf].
Abort(a, error_cause) ==
    [a |-> [a EXCEPT !.state = "Closed"],
     sbuf |-> <<Packet(a.src_port, a.dst_port, a.peer_vtag,
                       <<AbortChunk(FALSE, error_cause)>>)>>]

IsControl(chunk) == chunk.type # "Data"

SetDelayedAckTimer(a) == [a EXCEPT !.delayed_ack_timeout = TRUE]

\* The handlers of one chunk give [a, res, data]: res is "Ok", "Break" or the
\* error recv() returns; data tells that a DATA chunk was taken in.
Handled(a, res) == [a |-> a, res |-> res, data |-> FALSE]

\* recv(), DATA: the chunk goes to its inbound stream.
RecvDataStream(a1, pathid, chunk, stream_id) ==
    LET Counted(a2) ==
            [a2 EXCEPT !.num_data_pkts_seen = @ + 1,
                       !.send_sack = IF ~a2.delayed_ack
                                        \/ a2.num_data_pkts_seen + 1 >= a2.ack_freq
                                     THEN TRUE ELSE @,
                       !.delayed_ack_timeout = IF ~a2.delayed_ack
                                                  \/ a2.num_data_pkts_seen + 1 >= a2.ack_freq
                                               THEN @ ELSE TRUE,
                       !.last_data_from = pathid]
        Result(s) ==
            IF s.res = "panic"
            THEN Handled(AssocPanic([a1 EXCEPT !.stream_in[stream_id + 1] = s.si]), "panic")
            ELSE IF s.res # "Ok"
            THEN Handled([a1 EXCEPT !.stream_in[stream_id + 1] = s.si], s.res)
            ELSE [a |-> Counted([a1 EXCEPT !.stream_in[stream_id + 1] = s.si]),
                  res |-> "Ok", data |-> TRUE]
    IN Result(StreamInRecv(a1.stream_in[stream_id + 1], chunk))

RecvData(a, pathid, chunk) ==
    LET stream_id == chunk.proto_id
        Result(u) ==
            IF u.res = "panic" THEN Handled(AssocPanic(a), "panic")
            ELSE IF u.res = "InvalidValue" THEN Handled(a, "InvalidValue")
            ELSE IF stream_id >= Len(a.stream_in)
            THEN Handled([a EXCEPT !.mapping_array = u.ma], "Ok")
            ELSE RecvDataStream([a EXCEPT !.mapping_array = u.ma], pathid, chunk, stream_id)
    IN Result(MAUpdate(a.mapping_array, chunk.tsn))

\* recv(), INIT-ACK that answers the outstanding INIT.
RecvInitAckPaths(a5, from, initack) ==
    LET known == GetPathid(a5, from)
        pathid == IF known # None THEN known ELSE Len(a5.raddr_list)
        Result(a6, r1, r2) ==
            IF ~r2.ok THEN Handled(AssocPanic([a6 EXCEPT !.recovery = r1]), "panic")
            ELSE Handled([a6 EXCEPT !.recovery = r2.r,
                                    !.state = "CookieEchoed",
                                    !.control_waiting_trans =
                                        Append(@, [chunk |-> [type |-> "CookieEcho",
                                                              cookie |-> initack.cookie[1]],
                                                   pathid |-> pathid])], "Ok")
        Confirmed(a6, r1) == Result(a6, r1, SetPrimaryPath(r1, pathid))
        Added(a6) == Confirmed(a6, ConfirmPath(Initialize(a6.recovery, initack.a_rwnd),
                                               pathid))
    IN Added(IF known # None THEN a5 ELSE AddRaddr(a5, from).a)

RecvInitAck(a, from, initack) ==
    LET Streams(a2, init) ==
            GenerateStreamOut(GenerateStreamIn(a2, Min(init.num_in_strm,
                                                       initack.num_out_strm)),
                              Min(init.num_out_strm, initack.num_in_strm))
        Result(t) ==
            IF t.chunk = <<>> \/ t.chunk[1].type # "Init"
            THEN Handled([a EXCEPT !.recovery = t.r], "InvalidValue")
            ELSE RecvInitAckPaths(
                     AddRaddrs(Streams([a EXCEPT !.recovery = t.r,
                                                 !.mapping_array =
                                                     MAInitialize(initack.init_tsn),
                                                 !.peer_vtag = initack.init_tag],
                                       t.chunk[1]),
                               initack.params),
                     from, initack)
    IN IF initack.cookie = <<>> THEN Handled(a, "ProtocolViolation")
       ELSE Result(RecoveryOnT1ChunkReceived(a.recovery))

RecvSack(a, chunk) ==
    LET Shutdown(a1, s) ==
            Handled([a1 EXCEPT !.recovery = s.r,
                               !.state = IF s.ready THEN "ShutdownSent" ELSE @], "Ok")
        Result(a1) ==
            IF a1.state = "ShutdownPending"
            THEN Shutdown(a1, RecoveryOnEnterShutdown(a1.recovery,
                                                      a1.mapping_array.cummulative_tsn))
            ELSE Handled(a1, "Ok")
    IN Result([a EXCEPT !.recovery = RecoveryOnSackReceived(@, chunk)])

RecvCookieAckIgnored(a) == Handled(a, "Ok")

\* recv() of a COOKIE-ACK that does not look at the chunk the COOKIE-ACK answers.
RecvCookieAckUnchecked(a) ==
    LET Result(t) ==
            Handled([a EXCEPT !.recovery = Establish(t.r), !.state = "Established"], "Ok")
    IN Result(RecoveryOnT1ChunkReceived(a.recovery))

RecvCookieAck(a) ==
    LET Result(t) ==
            IF t.chunk = <<>> \/ t.chunk[1].type # "CookieEcho"
            THEN Handled([a EXCEPT !.recovery = t.r], "InvalidValue")
            ELSE Handled([a EXCEPT !.recovery = Establish(t.r), !.state = "Established"],
                         "Ok")
    IN Result(RecoveryOnT1ChunkReceived(a.recovery))

RecvChunk(a, from, pathid, chunk) ==
    CASE chunk.type = "Data" -> RecvData(a, pathid, chunk)
      [] chunk.type = "InitAck" -> RecvInitAck(a, from, chunk)
      [] chunk.type = "Sack" -> RecvSack(a, chunk)
      [] chunk.type = "Abort" -> Handled([a EXCEPT !.state = "Closed"], "Break")
      [] chunk.type = "Shutdown" ->
            Handled([a EXCEPT !.state = "ShutdownReceived",
                              !.recovery = RecoveryOnShutdownReceived(@).r], "Ok")
      [] chunk.type = "ShutdownAck" ->
            IF a.state = "ShutdownSent"
            THEN Handled([a EXCEPT !.state = "Closed",
                                   !.recovery = RecoveryOnShutdownAckReceived(@)], "Ok")
            ELSE Handled(a, "Ok")
      [] chunk.type = "CookieAck" -> RecvCookieAck(a)
      [] chunk.type = "ShutdownComplete" -> Handled([a EXCEPT !.state = "Closed"], "Ok")
      [] chunk.type = "Heartbeat" ->
            Handled([a EXCEPT !.control_waiting_trans =
                                  Append(@, [chunk |-> [chunk EXCEPT !.type = "HeartbeatAck"],
                                             pathid |-> pathid])], "Ok")
      [] chunk.type = "HeartbeatAck" /\ HasHbInfo(chunk) ->
            Handled([a EXCEPT !.recovery = RecoveryOnHeartbeatAckReceived(@, chunk)], "Ok")
      [] OTHER -> Handled(a, "Ok")

RECURSIVE RecvLoop(_, _, _, _, _)
RecvLoop(a, from, pathid, chunks, data_appears) ==
    LET Aborted(ab, res) == [a |-> ab.a, res |-> res, sbuf |-> ab.sbuf]
        Result(h) ==
            IF Panicked(h.a) THEN [a |-> h.a, res |-> "panic", sbuf |-> <<>>]
            ELSE IF h.res = "Ok"
            THEN RecvLoop(h.a, from, pathid, Tail(chunks), data_appears \/ h.data)
            ELSE [a |-> h.a, res |-> IF h.res = "Break" THEN "Ok" ELSE h.res, sbuf |-> <<>>]
    IN IF chunks = <<>> THEN [a |-> a, res |-> "Ok", sbuf |-> <<>>]
       ELSE IF IsControl(Head(chunks)) /\ data_appears
       THEN Aborted(Abort(a, "ProtocolViolation"), "ProtocolViolation")
       ELSE IF pathid = None THEN Aborted(Abort(a, "None"), "OOTB")
       ELSE Result(RecvChunk(a, from, pathid, Head(chunks)))

\* recv(from, rbuf, sbuf): [a, res, sbuf].
Recv(a, from, chunks) == RecvLoop(a, from, GetPathid(a, from), chunks, FALSE)

\* ------------------------------------------------------------------------
\* SctpStreamOut (sctp_stream.rs) and the stream calls of the association
\* ------------------------------------------------------------------------
RECURSIVE TakeBytes(_, _)
TakeBytes(data, n) ==
    IF n = 0 \/ data = <<>> THEN <<>>
    ELSE LET h == Head(data)
             l == h.hi - h.lo + 1
         IN IF l <= n THEN <<h>> \o TakeBytes(Tail(data), n - l)
            ELSE <<[h EXCEPT !.hi = h.lo + n - 1]>>

RECURSIVE DropBytes(_, _)
DropBytes(data, n) ==
    IF n = 0 \/ data = <<>> THEN data
    ELSE LET h == Head(data)
             l == h.hi - h.lo + 1
         IN IF l <= n THEN DropBytes(Tail(data), n - l)
            ELSE <<[h EXCEPT !.lo = h.lo + n]>> \o Tail(data)

\* write(rbuf, is_unordered, is_complete)
StreamOutWrite(so, rbuf, is_unordered, is_complete) ==
    LET n == Len(so.pending_queue) IN
    IF n > 0 /\ ~so.pending_queue[n].complete
    THEN [so EXCEPT !.pending_queue[n].data = @ \o rbuf,
                    !.pending_queue[n].complete = is_complete]
    ELSE [so EXCEPT !.pending_queue =
              Append(@, [stream_id |-> so.stream_id, unordeded |-> is_unordered,
                         complete |-> is_complete, flight |-> FALSE, data |-> rbuf])]

\* generate_data() that leaves the bytes of a fragment in the pending message.
GenerateDataKeepsBytes(so, tsn, fragment_point) ==
    LET first_pending == Head(so.pending_queue)
        whole == first_pending.complete /\ DataLen(first_pending.data) <= fragment_point
        chunk == [type |-> "Data", u_bit |-> first_pending.unordeded,
                  b_bit |-> ~first_pending.flight, e_bit |-> whole, tsn |-> tsn,
                  stream_id |-> so.stream_id, stream_seq |-> so.next_seq, proto_id |-> 0,
                  data |-> IF whole THEN first_pending.data
                           ELSE TakeBytes(first_pending.data, fragment_point)]
    IN IF whole
       THEN [so |-> [so EXCEPT !.pending_queue = Tail(@),
                               !.next_seq = IF first_pending.unordeded THEN @
                                            ELSE SsnAdd(@, 1)],
             chunk |-> chunk]
       ELSE [so |-> [so EXCEPT !.pending_queue[1].flight = TRUE], chunk |-> chunk]

\* generate_data(tsn, fragment_point) with a message pending: [so, chunk].
GenerateData(so, tsn, fragment_point) ==
    LET first_pending == Head(so.pending_queue)
        whole == first_pending.complete /\ DataLen(first_pending.data) <= fragment_point
        chunk == [type |-> "Data", u_bit |-> first_pending.unordeded,
                  b_bit |-> ~first_pending.flight, e_bit |-> whole, tsn |-> tsn,
                  stream_id |-> so.stream_id, stream_seq |-> so.next_seq, proto_id |-> 0,
                  data |-> IF whole THEN first_pending.data
                           ELSE TakeBytes(first_pending.data, fragment_point)]
    IN IF whole
       THEN [so |-> [so EXCEPT !.pending_queue = Tail(@),
                               !.next_seq = IF first_pending.unordeded THEN @
                                            ELSE SsnAdd(@, 1)],
             chunk |-> chunk]
       ELSE [so |-> [so EXCEPT !.pending_queue[1].data = DropBytes(@, fragment_point),
                               !.pending_queue[1].flight = TRUE],
             chunk |-> chunk]

\* write_into_stream(): [a, res].
WriteIntoStream(a, stream_id, rbuf, is_unordered, is_complete) ==
    IF stream_id >= Len(a.stream_out) THEN [a |-> a, res |-> "InvalidValue"]
    ELSE [a |-> [a EXCEPT !.stream_out[stream_id + 1] =
                     StreamOutWrite(@, rbuf, is_unordered, is_complete)],
          res |-> "Ok"]

\* read_from_stream(): [a, res, data].
ReadFromStream(a, stream_id) ==
    IF stream_id >= Len(a.stream_in) THEN [a |-> a, res |-> "InvalidValue", data |-> <<>>]
    ELSE LET rd == StreamInRead(a.stream_in[stream_id + 1])
         IN [a |-> [a EXCEPT !.stream_in[stream_id + 1] = rd.si],
             res |-> "Ok", data |-> rd.data]

RECURSIVE SumMsgLen(_)
SumMsgLen(queue) == IF queue = <<>> THEN 0 ELSE Head(queue).len + SumMsgLen(Tail(queue))

StreamInLen(si) ==
    SumMsgLen(si.waiting_unordered_queue) + SumMsgLen(si.waiting_ordered_queue)
    + SumMsgLen(si.readable_unordered_queue) + SumMsgLen(si.readable_ordered_queue)

RECURSIVE SumStreamInLen(_)
SumStreamInLen(streams) ==
    IF streams = <<>> THEN 0 ELSE StreamInLen(Head(streams)) + SumStreamInLen(Tail(streams))

GetRwnd(a) == Max(a.a_rwnd - SumStreamInLen(a.stream_in), 0)

\* send_sack(): checked tells whether the build traps on arithmetic overflow.
SendSack(a, checked) ==
    LET g == GenarateSack(a.mapping_array, checked)
        chunk == [type |-> "Sack", cum_ack |-> g.cum_ack, a_rwnd |-> GetRwnd(a),
                  gap_acks |-> g.gap_acks]
        primary == GetPrimaryPath(a)
        last == IF a.last_data_from = None THEN primary ELSE a.last_data_from
        pathid == IF HasPath(a.recovery, last)
                     /\ a.recovery.path_list[last + 1].confirmed
                     /\ a.recovery.path_list[last + 1].state # "InActive"
                  THEN last ELSE primary
    IN IF g.panic \/ primary = None THEN AssocPanic(a)
       ELSE [a EXCEPT !.control_waiting_trans =
                          Append(@, [chunk |-> chunk, pathid |-> pathid]),
                      !.num_data_pkts_seen = 0,
                      !.send_sack = FALSE,
                      !.delayed_ack_timeout = FALSE]

\* close(): [a, res].
CloseUnguarded(a) == [a |-> [a EXCEPT !.state = "ShutdownSent"], res |-> "Ok"]

Close(a) ==
    IF a.state \in {"CookieWait", "CookieEchoed"} THEN [a |-> a, res |-> "InvalidValue"]
    ELSE IF a.state = "Established"
    THEN LET s == RecoveryOnEnterShutdown(a.recovery, a.mapping_array.cummulative_tsn)
         IN [a |-> [a EXCEPT !.recovery = s.r,
                             !.state = IF s.ready THEN "ShutdownSent"
                                       ELSE "ShutdownPending"],
             res |-> "Ok"]
    ELSE [a |-> a, res |-> "Ok"]

\* on_timeout(): exp names the timers whose deadline has passed.
OnTimeout(a, exp) ==
    LET a1 == IF a.delayed_ack_timeout /\ exp.dack
              THEN [a EXCEPT !.send_sack = TRUE, !.delayed_ack_timeout = FALSE]
              ELSE a
    IN [a1 EXCEPT !.recovery = RecoveryOnTimeout(@, exp)]

\* ------------------------------------------------------------------------
\* SctpAssociation::send (lib.rs)
\* ------------------------------------------------------------------------
\* sbuf holds the common header and then the chunks written so far; chunks is
\* the sequence of those chunks.
RECURSIVE ChunksLen(_)
ChunksLen(chunks) ==
    IF chunks = <<>> THEN 0 ELSE ChunkBytesLen(Head(chunks)) + ChunksLen(Tail(chunks))

PathMtu(r, pathid) == r.path_list[pathid + 1].mtu

\* write_control_chunks!: the loop over the queued chunks, [r, waiting, chunks,
\* pathid].
RECURSIVE WriteControlLoop(_, _, _, _)
WriteControlLoop(r, waiting, chunks, pathid) ==
    IF waiting = <<>> THEN [r |-> r, waiting |-> waiting, chunks |-> chunks, pathid |-> pathid]
    ELSE LET e == Head(waiting)
             pid == IF pathid = None THEN e.pathid ELSE pathid
         IN IF pid # e.pathid
            THEN [r |-> r, waiting |-> waiting, chunks |-> chunks, pathid |-> pid]
            ELSE IF ~HasPath(r, pid) \/ PathMtu(r, pid) < ChunksLen(chunks)
            THEN [r |-> Panic(r), waiting |-> waiting, chunks |-> chunks, pathid |-> pid]
            ELSE IF PathMtu(r, pid) - ChunksLen(chunks) < ChunkBytesLen(e.chunk)
            THEN [r |-> r, waiting |-> waiting, chunks |-> chunks, pathid |-> pid]
            ELSE WriteControlLoop(RecoveryOnControlSent(r, e.chunk, pid), Tail(waiting),
                                  Append(chunks, e.chunk), pid)

\* write_control_chunks!: [r, waiting, chunks, ok, pathid].
WriteControlChunks(r, waiting, chunks, pathid) ==
    LET Result(w) ==
            [r |-> w.r, waiting |-> w.waiting, chunks |-> w.chunks, pathid |-> w.pathid,
             ok |-> waiting # <<>> /\ w.pathid # None /\ Len(w.chunks) > Len(chunks)]
    IN Result(WriteControlLoop(r, waiting, chunks, pathid))

\* send_for_control_transmission(): [a, chunks, ok, pathid].
SendForControlTransmission(a, chunks) ==
    LET Result(a1, p1, w2) ==
            [a |-> [a1 EXCEPT !.recovery = [w2.r EXCEPT !.control_waiting_trans =
                                                            w2.waiting]],
             chunks |-> w2.chunks,
             ok |-> (w2.ok \/ p1 # None) /\ Len(w2.chunks) > Len(chunks),
             pathid |-> IF w2.ok THEN w2.pathid ELSE p1]
        Second(a1, r1, chunks1, p1) ==
            Result(a1, p1, WriteControlChunks(r1, r1.control_waiting_trans, chunks1, p1))
        First(w1) ==
            Second([a EXCEPT !.control_waiting_trans = w1.waiting], w1.r, w1.chunks,
                   IF w1.ok THEN w1.pathid ELSE None)
    IN First(WriteControlChunks(a.recovery, a.control_waiting_trans, chunks, None))

Waiting(r, fast_retrans) ==
    IF fast_retrans THEN r.tsn_waiting_fast_retrans ELSE r.tsn_waiting_t3_retrans

RemoveWaiting(r, fast_retrans, tsn) ==
    IF fast_retrans THEN [r EXCEPT !.tsn_waiting_fast_retrans = BTreeRemove(@, tsn)]
    ELSE [r EXCEPT !.tsn_waiting_t3_retrans = BTreeRemove(@, tsn)]

\* The end of both retransmission loops: the entry leaves the waiting map and
\* its chunk, if it is still Lost, is written and recorded as sent again.
Retransmit(r, fast_retrans, tsn, chunks, pathid) ==
    LET Result(p) ==
            IF p.chunk = <<>> THEN [r |-> p.r, chunks |-> chunks]
            ELSE [r |-> RecoveryOnDataSent(p.r, p.chunk[1], pathid, TRUE),
                  chunks |-> Append(chunks, p.chunk[1])]
    IN Result(PopRetransChunk(RemoveWaiting(r, fast_retrans, tsn), tsn))

\* write_retrans_chunks_for_single_pkt!: [r, chunks, pathid].
RECURSIVE WriteRetransSingleLoop(_, _, _, _, _, _)
WriteRetransSingleLoop(r, fast_retrans, tsns, chunks, pathid, entered) ==
    IF tsns = <<>> THEN [r |-> r, chunks |-> chunks, pathid |-> pathid]
    ELSE LET e == BTreeGet(Waiting(r, fast_retrans), Head(tsns))
             pid == IF pathid = None THEN e.pathid ELSE pathid
             Next(skip, w, p, en) ==
                 IF skip \/ en
                 THEN WriteRetransSingleLoop(w.r, fast_retrans, Tail(tsns), w.chunks, p, en)
                 ELSE [r |-> w.r, chunks |-> w.chunks, pathid |-> p]
             Entered(en) ==
                 IF ~en.entered THEN [r |-> en.r, chunks |-> chunks, pathid |-> pid]
                 ELSE IF ~HasPath(en.r, pid) \/ PathMtu(en.r, pid) < ChunksLen(chunks)
                 THEN [r |-> Panic(en.r), chunks |-> chunks, pathid |-> pid]
                 ELSE IF PathMtu(en.r, pid) - ChunksLen(chunks) < e.bytes_len
                 THEN [r |-> en.r, chunks |-> chunks, pathid |-> pid]
                 ELSE Next(FALSE, Retransmit(en.r, fast_retrans, Head(tsns), chunks, pid),
                           pid, TRUE)
         IN IF ~e.first \/ pid # e.pathid
            THEN Next(TRUE, [r |-> r, chunks |-> chunks], pathid, entered)
            ELSE Entered(IF entered THEN [r |-> r, entered |-> TRUE]
                         ELSE IF fast_retrans THEN EnterFastRetrans(r, pid)
                         ELSE EnterT3Retrans(r, pid))

\* send_for_first_fast_retransmission() / send_for_first_t3_retransmission():
\* [r, chunks, ok, pathid].
WriteRetransChunksForSinglePkt(r, fast_retrans, chunks) ==
    LET Result(w) == [r |-> w.r, chunks |-> w.chunks, pathid |-> w.pathid,
                      ok |-> Len(w.chunks) > Len(chunks)]
    IN Result(WriteRetransSingleLoop(r, fast_retrans, BTreeKeys(Waiting(r, fast_retrans)),
                                     chunks, None, FALSE))

\* write_retrans_chunks!: [r, chunks, pathid].
RECURSIVE WriteRetransLoop(_, _, _, _, _)
WriteRetransLoop(r, fast_retrans, tsns, chunks, pathid) ==
    IF tsns = <<>> THEN [r |-> r, chunks |-> chunks, pathid |-> pathid]
    ELSE LET e == BTreeGet(Waiting(r, fast_retrans), Head(tsns))
             pid == IF pathid = None THEN e.pathid ELSE pathid
             stop == [r |-> r, chunks |-> chunks, pathid |-> pid]
         IN IF pid # e.pathid THEN stop
            ELSE IF ~HasPath(r, pid) THEN [stop EXCEPT !.r = Panic(r)]
            ELSE IF PathMtu(r, pid) <= ChunksLen(chunks) THEN stop
            ELSE IF Min(PathMtu(r, pid) - ChunksLen(chunks), GetAvailableCwnd(r, pid))
                    < e.bytes_len
            THEN stop
            ELSE LET Next(w) == WriteRetransLoop(w.r, fast_retrans, Tail(tsns), w.chunks,
                                                 pid)
                 IN Next(Retransmit(r, fast_retrans, Head(tsns), chunks, pid))

\* send_for_fast_retransmission() / send_for_t3_retransmission():
\* [r, chunks, ok, pathid].
WriteRetransChunks(r, fast_retrans, chunks, pathid) ==
    LET Result(w) == [r |-> w.r, chunks |-> w.chunks, pathid |-> w.pathid,
                      ok |-> w.pathid # None /\ Len(w.chunks) > Len(chunks)]
    IN Result(WriteRetransLoop(r, fast_retrans, BTreeKeys(Waiting(r, fast_retrans)),
                               chunks, pathid))

\* The while loop of send_for_transmission() over one stream: [a, chunks].
RECURSIVE TransmitStream(_, _, _, _)
TransmitStream(a, strmid, chunks, pathid) ==
    LET strmout == a.stream_out[strmid + 1]
        mtu == PathMtu(a.recovery, pathid)
        window == GetAvailableWindow(a.recovery, pathid)
        available_space == Min(mtu - ChunksLen(chunks), window)
        fragment_point == available_space - DATA_HEADER_LEN
        r1 == GetNextTsn(a.recovery)
        g == GenerateData(strmout, r1.largest_tsn, fragment_point)
    IN IF strmout.pending_queue = <<>> THEN [a |-> a, chunks |-> chunks]
       ELSE IF ~HasPath(a.recovery, pathid) THEN [a |-> AssocPanic(a), chunks |-> chunks]
       ELSE IF mtu <= COMMON_HEADER_LEN + ChunksLen(chunks) THEN [a |-> a, chunks |-> chunks]
       ELSE IF available_space <= DATA_HEADER_LEN THEN [a |-> a, chunks |-> chunks]
       ELSE TransmitStream([a EXCEPT !.stream_out[strmid + 1] = g.so,
                                     !.recovery = RecoveryOnDataSent(r1, g.chunk, pathid,
                                                                     FALSE)],
                           strmid, Append(chunks, g.chunk), pathid)

\* The for loop of send_for_transmission() over the pending streams.
RECURSIVE TransmitStreams(_, _, _, _)
TransmitStreams(a, pending, chunks, pathid) ==
    IF pending = <<>> \/ Panicked(a) THEN [a |-> a, chunks |-> chunks, pathid |-> pathid]
    ELSE LET pid == IF pathid = None THEN GetPrimaryPath(a) ELSE pathid
             Rest(t) == TransmitStreams(t.a, Tail(pending), t.chunks, pid)
         IN IF pid = None \/ GetPrimaryPath(a) = None
            THEN [a |-> AssocPanic(a), chunks |-> chunks, pathid |-> pid]
            ELSE Rest(IF pid # GetPrimaryPath(a) THEN [a |-> a, chunks |-> chunks]
                      ELSE TransmitStream(a, Head(pending), chunks, pid))

GetPending(a) ==
    SelectSeq([i \in 1..Len(a.stream_out) |-> i - 1],
              LAMBDA id : a.stream_out[id + 1].pending_queue # <<>>)

\* send_for_transmission(): [a, chunks, ok, pathid].
SendForTransmission(a, chunks, pathid) ==
    LET Result(t) == [a |-> t.a, chunks |-> t.chunks, pathid |-> t.pathid,
                      ok |-> t.pathid # None /\ Len(t.chunks) > Len(chunks)]
    IN Result(TransmitStreams(a, GetPending(a), chunks, pathid))

SendOk(a, chunks, pathid) ==
    [a |-> a, res |-> "Ok", to |-> GetRemoteIp(a, pathid),
     sbuf |-> <<Packet(a.src_port, a.dst_port, a.peer_vtag, chunks)>>]

SendDone(a) ==
    [a |-> [a EXCEPT !.send_burst_count = 0], res |-> "Done", to |-> "", sbuf |-> <<>>]

SendPanic(a) == [a |-> a, res |-> "panic", to |-> "", sbuf |-> <<>>]

\* What send() has in hand between its steps: the association, the chunks
\* written into sbuf, the path they go to and sent_for_retrans.
SendState(a, chunks, pathid, sent_for_retrans) ==
    [a |-> a, chunks |-> chunks, pathid |-> pathid, sent_for_retrans |-> sent_for_retrans]

\* send(): the SACK that is due.
SendDueSack(a, checked) ==
    IF a.state \in {"Established", "ShutdownPending", "ShutdownSent"}
       /\ (a.delayed_ack_timeout \/ a.send_sack)
    THEN SendSack(a, checked) ELSE a

\* send(): the control chunks.
SendControl(a) ==
    LET Result(c) == SendState(c.a, c.chunks, IF c.ok THEN c.pathid ELSE None, FALSE)
    IN Result(SendForControlTransmission(a, <<>>))

\* send(): send_for_fast_retransmission() / send_for_t3_retransmission().
SendRetrans(st, fast_retrans) ==
    LET Result(w) == SendState([st.a EXCEPT !.recovery = w.r], w.chunks,
                               IF w.ok /\ st.pathid = None THEN w.pathid ELSE st.pathid,
                               st.sent_for_retrans \/ w.ok)
    IN IF st.a.state \in {"Established", "ShutdownPending", "ShutdownReceived"}
       THEN Result(WriteRetransChunks(st.a.recovery, fast_retrans, st.chunks, st.pathid))
       ELSE st

\* send() without the cap on the burst.
SendNewUnlimited(st) ==
    LET a4 == [st.a EXCEPT !.send_burst_count = @ + 1]
        Result(d) ==
            IF Panicked(d.a) THEN SendPanic(d.a)
            ELSE IF d.ok /\ st.pathid = None THEN SendOk(d.a, d.chunks, d.pathid)
            ELSE IF st.pathid # None THEN SendOk(d.a, d.chunks, st.pathid)
            ELSE SendDone(d.a)
    IN IF Panicked(st.a) THEN SendPanic(st.a)
       ELSE IF st.a.state = "Established" /\ ~st.sent_for_retrans
       THEN Result(SendForTransmission(a4, st.chunks, st.pathid))
       ELSE IF st.pathid # None THEN SendOk(st.a, st.chunks, st.pathid)
       ELSE SendDone(st.a)

\* send(): new DATA, unless the burst is over, and the result.
SendNew(st) ==
    LET a4 == [st.a EXCEPT !.send_burst_count = @ + 1]
        Result(d) ==
            IF Panicked(d.a) THEN SendPanic(d.a)
            ELSE IF d.ok /\ st.pathid = None THEN SendOk(d.a, d.chunks, d.pathid)
            ELSE IF st.pathid # None THEN SendOk(d.a, d.chunks, st.pathid)
            ELSE SendDone(d.a)
    IN IF Panicked(st.a) THEN SendPanic(st.a)
       ELSE IF st.a.state = "Established" /\ ~st.sent_for_retrans
       THEN IF a4.send_burst_count > MAX_BURST THEN SendDone(a4)
            ELSE Result(SendForTransmission(a4, st.chunks, st.pathid))
       ELSE IF st.pathid # None THEN SendOk(st.a, st.chunks, st.pathid)
       ELSE SendDone(st.a)

\* The part of send() after the single-packet retransmissions.
SendAfterSack(a1) ==
    IF Panicked(a1) THEN SendPanic(a1)
    ELSE SendNew(SendRetrans(SendRetrans(SendControl(a1), TRUE), FALSE))

SendRest(a0, checked) == SendAfterSack(SendDueSack(a0, checked))

\* send(): send_for_first_fast_retransmission() and, if that wrote nothing,
\* send_for_first_t3_retransmission(): [r, chunks, ok, pathid].
SendFirstRetrans(r) ==
    LET Result(f) == IF f.ok \/ f.r.panic THEN f
                     ELSE WriteRetransChunksForSinglePkt(f.r, FALSE, <<>>)
    IN Result(WriteRetransChunksForSinglePkt(r, TRUE, <<>>))

\* send() without the early datagram of the first retransmission.
SendWithoutFirstRetrans(a, checked) == SendRest(a, checked)

\* send(sbuf): [a, res, to, sbuf].
Send(a, checked) ==
    LET Result(w) ==
            IF Panicked([a EXCEPT !.recovery = w.r])
            THEN SendPanic([a EXCEPT !.recovery = w.r])
            ELSE IF w.ok THEN SendOk([a EXCEPT !.recovery = w.r], w.chunks, w.pathid)
            ELSE SendRest([a EXCEPT !.recovery = w.r], checked)
    IN Result(IF a.state \in {"Established", "ShutdownPending", "ShutdownReceived"}
              THEN SendFirstRetrans(a.recovery)
              ELSE [r |-> a.recovery, chunks |-> <<>>, ok |-> FALSE, pathid |-> None])

\* SctpAssociation::get_timeout() gives a duration and not None.
GetTimeout(a) == a.delayed_ack_timeout \/ RecoveryGetTimeout(a.recovery)
VARIABLES mapping_array, init_tsn, recorded, last_update, recvs,
          stream_in, first_tsn, delivered, misordered, stream_res, read_log,
          client, peers, net, flushing, last_op, script, budget,
          sender, wire, peer_got, sender_op, misses, spent,
          stream_out, written, generated

mapVars == <<mapping_array, init_tsn, recorded, last_update, recvs>>
streamVars == <<stream_in, first_tsn, delivered, misordered, stream_res, read_log>>
assocVars == <<client, peers, net, flushing, last_op, script, budget>>
senderVars == <<sender, wire, peer_got, sender_op, misses, spent>>
outVars == <<stream_out, written, generated>>
restVars == <<senderVars, outVars>>
vars == <<mapVars, streamVars, assocVars, restVars>>

NoOp == [op |-> "none", who |-> "", res |-> ""]
NoScript == [hs |-> 0, cl |-> 0, who |-> "", from |-> "", out |-> {}]
NoBudget == [writes |-> 0, faults |-> 0]

AssocIdle ==
    /\ client = SctpAssociationNew(0, 0, 0, 0, 0)
    /\ peers = <<>>
    /\ net = {}
    /\ flushing = {}
    /\ last_op = NoOp
    /\ script = NoScript
    /\ budget = NoBudget

\* What the last call on the sender was, and what held before it.
NoSenderOp ==
    [op |-> "none", res |-> "", tsns |-> <<>>, flush |-> FALSE, burst |-> 0,
     cwnd |-> 0, fast_recovery |-> FALSE, recovery_point |-> None,
     outstanding |-> {}, lost |-> {}, due |-> {}]

NothingSpent == [writes |-> 0, timeouts |-> 0, losses |-> {}, fast |-> {}]

SenderIdle ==
    /\ sender = SctpAssociationNew(0, 0, 0, 0, 0)
    /\ wire = {}
    /\ peer_got = {}
    /\ sender_op = NoSenderOp
    /\ misses = <<>>
    /\ spent = NothingSpent

OutIdle ==
    /\ stream_out = StreamOutNew(0)
    /\ written = <<>>
    /\ generated = <<>>

RestIdle == SenderIdle /\ OutIdle

InitTsnChoices == {0, 5, TsnMod - 3, TsnMod - 1}

NoUpdate == [tsn |-> 0, res |-> "none", val |-> 0, old_cum |-> 0, old_base |-> 0]

MapIdle ==
    /\ init_tsn = 0
    /\ mapping_array = MANew
    /\ recorded = {}
    /\ last_update = NoUpdate
    /\ recvs = 0

MapInit ==
    /\ init_tsn \in InitTsnChoices
    /\ mapping_array = MAInitialize(init_tsn)
    /\ recorded = {}
    /\ last_update = NoUpdate
    /\ recvs = 0

\* The update() calls of one recv(): the DATA chunks of a datagram carry the
\* TSNs at offsets lo, lo+1, .., lo+n-1 from init_tsn and are processed in
\* order; recv() stops at the first update() that fails.
\* st = [ma, rec, last]
RECURSIVE MapRun(_, _, _)
MapRun(st, off, n) ==
    IF n = 0 \/ st.last.res \in {"InvalidValue", "panic"} THEN st
    ELSE LET tsn == TsnAdd(init_tsn, off)
             Updated(r) ==
                 [ma |-> r.ma,
                  rec |-> IF r.res \in {"Some", "None"} THEN st.rec \cup {off}
                          ELSE st.rec,
                  last |-> [tsn |-> tsn, res |-> r.res, val |-> r.val,
                            old_cum |-> st.ma.cummulative_tsn,
                            old_base |-> st.ma.base_tsn]]
         IN MapRun(Updated(MAUpdate(st.ma, tsn)), off + 1, n - 1)

MapRecv(lo, n) ==
    /\ last_update.res # "panic"
    /\ recvs < MaxRecvs
    /\ lo + n - 1 <= MaxOff
    /\ LET Ran(st) ==
               /\ mapping_array' = st.ma
               /\ recorded' = st.rec
               /\ last_update' = st.last
       IN Ran(MapRun([ma |-> mapping_array, rec |-> recorded, last |-> NoUpdate], lo, n))
    /\ recvs' = recvs + 1
    /\ UNCHANGED <<init_tsn, streamVars, assocVars, restVars>>

\* A datagram carries one DATA chunk or a run of MaxRun of them.
RunLens == {1, MaxRun}

MapNext == \E lo \in 0..MaxOff, n \in RunLens : MapRecv(lo, n)

\* ------------------------------------------------------------------------
\* One inbound stream fed with the fragments of three messages of the peer:
\* an ordered message of MaxFrags fragments (stream_seq 0), an ordered message
\* of two fragments (stream_seq 1) and an unordered message of two fragments,
\* sent in this order, so that their TSNs are consecutive from first_tsn.
\* ------------------------------------------------------------------------
PeerMsgs ==
    <<[u_bit |-> FALSE, stream_seq |-> 0, first |-> 0, n |-> MaxFrags],
      [u_bit |-> FALSE, stream_seq |-> 1, first |-> MaxFrags, n |-> 2],
      [u_bit |-> TRUE, stream_seq |-> 2, first |-> MaxFrags + 2, n |-> 2],
      [u_bit |-> TRUE, stream_seq |-> 3, first |-> MaxFrags + 4, n |-> 2]>>

MsgOffs(m) == PeerMsgs[m].first .. (PeerMsgs[m].first + PeerMsgs[m].n - 1)
AllOffs == UNION {MsgOffs(m) : m \in 1..Len(PeerMsgs)}
MsgOf(k) == CHOOSE m \in 1..Len(PeerMsgs) : k \in MsgOffs(m)

\* The DATA chunk generate_data makes of fragment k; its payload is one byte of buffer k.
PeerChunk(k) ==
    LET m == PeerMsgs[MsgOf(k)]
    IN [u_bit |-> m.u_bit, b_bit |-> k = m.first, e_bit |-> k = m.first + m.n - 1,
        tsn |-> TsnAdd(first_tsn, k), stream_id |-> 0, stream_seq |-> m.stream_seq,
        data |-> Bytes(k, 1)]

FirstTsnChoices == {10, TsnMod - 2}

StreamIdle ==
    /\ stream_in = StreamInNew(0)
    /\ first_tsn = 0
    /\ delivered = {}
    /\ misordered = {}
    /\ stream_res = "Ok"
    /\ read_log = <<>>

StreamInit ==
    /\ stream_in = StreamInNew(0)
    /\ first_tsn \in FirstTsnChoices
    /\ delivered = {}
    /\ misordered = {}
    /\ stream_res = "Ok"
    /\ read_log = <<>>

\* The association passes fragment k to SctpStreamIn::recv.
StreamRecv(k) ==
    /\ stream_res # "panic"
    /\ k \notin delivered
    /\ LET Received(r) ==
               /\ stream_in' = r.si
               /\ stream_res' = r.res
       IN Received(StreamInRecv(stream_in, PeerChunk(k)))
    /\ delivered' = delivered \cup {k}
    /\ misordered' = IF \E j \in delivered : j > k /\ MsgOf(j) = MsgOf(k)
                     THEN misordered \cup {MsgOf(k)} ELSE misordered
    /\ UNCHANGED <<first_tsn, read_log, mapVars, assocVars, restVars>>

\* The application reads one message from the stream.
StreamRead ==
    /\ stream_res # "panic"
    /\ LET r == StreamInRead(stream_in)
       IN /\ r.read
          /\ stream_in' = r.si
          /\ read_log' = Append(read_log, r.data)
    /\ UNCHANGED <<first_tsn, delivered, misordered, stream_res, mapVars, assocVars, restVars>>

StreamNext ==
    \/ \E k \in AllOffs : StreamRecv(k)
    \/ StreamRead

InitMap == MapInit /\ StreamIdle /\ AssocIdle /\ RestIdle
SpecMap == InitMap /\ [][MapNext]_vars

InitStream == StreamInit /\ MapIdle /\ AssocIdle /\ RestIdle
SpecStream == InitStream /\ [][StreamNext]_vars

\* ------------------------------------------------------------------------
\* One client and one server over a network that may lose, reorder and forge
\* datagrams.  The client owns the association connect() returned; the server
\* keeps the associations accept() returned in peers, under the key of the
\* datagram that created them, and passes a datagram to recv() of the
\* association with its key, or to accept() when there is none
\* (examples/server.rs).  A datagram is [from, to, header, chunks].
\* ------------------------------------------------------------------------
MaxWrites == 1
MaxFaults == 1
SmallRwnd == 114

ClientIp == "C"
ServerIp == "S"
ForeignIp == "X"
ClientPort == 1
ServerPort == 2
SecretKey == "k"
ForgedKey == "x"
ClientVtag == 11
ServerVtag == 21
ClientInitTsn == 100
ServerInitTsn == 7
WriteSizes == {100}
Endpoints == {"c", "s"}
Writers == {"c"}
\* The streams the applications write to and read from.
StreamIds == {0, 1}
Closers == {"c"}

Has(e) == IF e = "c" THEN TRUE ELSE peers # <<>>
Assoc(e) == IF e = "c" THEN client ELSE peers[1].assoc
IpOf(e) == IF e = "c" THEN ClientIp ELSE ServerIp
Other(e) == IF e = "c" THEN "s" ELSE "c"

\* The datagrams the application sends for the packets in sbuf.
Datagrams(sbuf, from, to) ==
    {[from |-> from, to |-> to, header |-> sbuf[i].header, chunks |-> sbuf[i].chunks]
        : i \in 1..Len(sbuf)}

Op(op, who, res) == [op |-> op, who |-> who, res |-> res]

\* The two scripted exchanges: hs counts the calls of the handshake made so
\* far, in order and with nothing in between, from the initial state; cl does
\* the same for the calls of a graceful close, from a close() by who.  A
\* receiving call continues a script only on a datagram the call before it
\* produced; out holds those datagrams while a script is running.
HandshakeCalls ==
    <<[op |-> "send", who |-> "c"], [op |-> "accept", who |-> "s"],
      [op |-> "recv", who |-> "c"], [op |-> "send", who |-> "c"],
      [op |-> "accept", who |-> "s"], [op |-> "send", who |-> "s"],
      [op |-> "recv", who |-> "c"]>>

CloseCalls(e) ==
    <<[op |-> "close", who |-> e], [op |-> "send", who |-> e],
      [op |-> "recv", who |-> Other(e)], [op |-> "send", who |-> Other(e)],
      [op |-> "recv", who |-> e], [op |-> "send", who |-> e],
      [op |-> "recv", who |-> Other(e)]>>

Follows(dgram) == dgram = <<>> \/ dgram[1] \in script.out

NoOutstanding(a) == a.recovery.data_sent.array = <<>>

CloseReady(e) ==
    /\ Has("s")
    /\ Assoc(e).state = "Established" /\ NoOutstanding(Assoc(e))
    /\ Assoc(Other(e)).state = "Established" /\ NoOutstanding(Assoc(Other(e)))

NextScript(op, who, dgram, out) ==
    LET call == [op |-> op, who |-> who]
        hs1 == IF script.hs >= 0 /\ script.hs < Len(HandshakeCalls)
                  /\ HandshakeCalls[script.hs + 1] = call /\ Follows(dgram)
               THEN script.hs + 1 ELSE -1
        go == script.cl > 0 /\ script.cl < Len(CloseCalls(script.who))
              /\ CloseCalls(script.who)[script.cl + 1] = call /\ Follows(dgram)
        start == op = "close" /\ CloseReady(who)
        cl1 == IF go THEN script.cl + 1 ELSE IF start THEN 1 ELSE 0
    IN [hs |-> hs1,
        cl |-> cl1,
        who |-> IF go THEN script.who ELSE IF start THEN who ELSE "",
        from |-> IF hs1 = 3 THEN dgram[1].from
                 ELSE IF hs1 > 3 THEN script.from ELSE "",
        out |-> IF (hs1 > 0 /\ hs1 < Len(HandshakeCalls))
                   \/ (cl1 > 0 /\ cl1 < Len(CloseCalls(who)))
                THEN out ELSE {}]

AssocInit ==
    /\ client = Connect(ClientPort, ServerPort, <<ClientIp>>, ServerIp,
                        ClientVtag, ClientInitTsn)
    /\ peers = <<>>
    /\ net = {}
    /\ flushing = {"c"}
    /\ last_op = NoOp
    /\ script = NoScript
    /\ budget = NoBudget

\* The association of e becomes a.
SetAssoc(e, a) ==
    IF e = "c" THEN client' = a /\ UNCHANGED peers
    ELSE peers' = <<[peers[1] EXCEPT !.assoc = a]>> /\ UNCHANGED client

Idle == UNCHANGED <<mapVars, streamVars, restVars>>

\* After every other call on its association the application of e calls send()
\* on an empty buffer, and sends what it got, until send() gives Done
\* (examples/client.rs, examples/server.rs); flushing holds the endpoint that
\* is doing so, and nothing else happens meanwhile.  The send() that ends the
\* loop with Done writes nothing and is no call of a scripted exchange.
AppSend(e, checked) ==
    /\ e \in flushing
    /\ LET Sent(s) ==
               /\ SetAssoc(e, s.a)
               /\ flushing' = IF s.res = "Ok" THEN flushing ELSE {}
               /\ net' = net \cup Datagrams(s.sbuf, IpOf(e), s.to)
               /\ last_op' = Op("send", e, s.res)
               /\ script' = IF s.res = "Ok"
                             THEN NextScript("send", e, <<>>,
                                             Datagrams(s.sbuf, IpOf(e), s.to))
                             ELSE script
       IN Sent(Send(Assoc(e), checked))
    /\ UNCHANGED budget
    /\ Idle

\* The client takes a datagram from the network and calls recv(); what recv()
\* wrote into sbuf goes back to the sender.
ClientRecv(d) ==
    /\ flushing = {}
    /\ d \in net /\ d.to = ClientIp
    /\ ~Panicked(client)
    /\ flushing' = {"c"}
    /\ LET Received(r) ==
               /\ client' = r.a
               /\ net' = (net \ {d}) \cup Datagrams(r.sbuf, ClientIp, d.from)
               /\ last_op' = Op("recv", "c", r.res)
               /\ script' = NextScript("recv", "c", <<d>>,
                                        Datagrams(r.sbuf, ClientIp, d.from))
       IN Received(Recv(client, d.from, d.chunks))
    /\ UNCHANGED <<peers, budget>>
    /\ Idle

\* The server takes a datagram that carries the key of its association.
ServerRecv(d) ==
    /\ flushing = {}
    /\ d \in net /\ d.to = ServerIp
    /\ peers # <<>> /\ peers[1].key = d.header
    /\ ~Panicked(peers[1].assoc)
    /\ flushing' = {"s"}
    /\ LET Received(r) ==
               /\ peers' = <<[peers[1] EXCEPT !.assoc = r.a]>>
               /\ net' = (net \ {d}) \cup Datagrams(r.sbuf, ServerIp, d.from)
               /\ last_op' = Op("recv", "s", r.res)
               /\ script' = NextScript("recv", "s", <<d>>,
                                        Datagrams(r.sbuf, ServerIp, d.from))
       IN Received(Recv(peers[1].assoc, d.from, d.chunks))
    /\ UNCHANGED <<client, budget>>
    /\ Idle

\* The server takes a datagram with a key it does not know and calls accept();
\* the chunks after the first go to recv() of the association accept() made.
ServerAccept(d, my_vtag, my_init_tsn) ==
    /\ flushing = {}
    /\ d \in net /\ d.to = ServerIp /\ d.chunks # <<>>
    /\ IF peers = <<>> THEN TRUE ELSE peers[1].key # d.header
    /\ LET Received(r) ==
               /\ peers = <<>>
               /\ peers' = <<[key |-> d.header, assoc |-> r.a]>>
               /\ flushing' = {"s"}
               /\ net' = (net \ {d}) \cup Datagrams(r.sbuf, ServerIp, d.from)
               /\ last_op' = Op("accept", "s", r.res)
               /\ script' = NextScript("accept", "s", <<d>>,
                                        Datagrams(r.sbuf, ServerIp, d.from))
           Accepted(acc) ==
               IF acc.assoc = <<>>
               THEN /\ UNCHANGED <<peers, flushing>>
                    /\ net' = (net \ {d}) \cup Datagrams(acc.sbuf, ServerIp, d.from)
                    /\ last_op' = Op("accept", "s", acc.res)
                    /\ script' = NextScript("accept", "s", <<d>>,
                                             Datagrams(acc.sbuf, ServerIp, d.from))
               ELSE Received(Recv(acc.assoc[1], d.from, Tail(d.chunks)))
       IN Accepted(Accept(d.from, d.header, d.chunks, SecretKey, my_vtag, my_init_tsn))
    /\ UNCHANGED <<client, budget>>
    /\ Idle

AppClose(e) ==
    /\ flushing = {}
    /\ Has(e) /\ ~Panicked(Assoc(e))
    /\ flushing' = {e}
    /\ LET Closed(c) ==
               /\ IF c.res = "Ok" THEN c.a # Assoc(e) ELSE TRUE
               /\ SetAssoc(e, c.a)
               /\ last_op' = Op("close", e, c.res)
       IN Closed(Close(Assoc(e)))
    /\ script' = NextScript("close", e, <<>>, {})
    /\ UNCHANGED <<net, budget>>
    /\ Idle

\* The application writes a whole message of n bytes; its bytes are named after
\* the number of the write.
AppWrite(e, stream_id, n, is_unordered) ==
    /\ flushing = {}
    /\ Has(e) /\ ~Panicked(Assoc(e))
    /\ Assoc(e).state = "Established"
    /\ flushing' = {e}
    /\ budget.writes < MaxWrites
    /\ LET Written(w) ==
               /\ SetAssoc(e, w.a)
               /\ last_op' = Op("write", e, w.res)
       IN Written(WriteIntoStream(Assoc(e), stream_id, Bytes(budget.writes, n),
                                  is_unordered, TRUE))
    /\ script' = NextScript("write", e, <<>>, {})
    /\ budget' = [budget EXCEPT !.writes = @ + 1]
    /\ UNCHANGED net
    /\ Idle

\* The application reads a message from a readable stream.
AppRead(e, stream_id) ==
    /\ flushing = {}
    /\ Has(e) /\ ~Panicked(Assoc(e))
    /\ UNCHANGED flushing
    /\ stream_id < Len(Assoc(e).stream_in)
    /\ StreamInRead(Assoc(e).stream_in[stream_id + 1]).read
    /\ LET Read(rd) ==
               /\ SetAssoc(e, rd.a)
               /\ last_op' = Op("read", e, rd.res)
       IN Read(ReadFromStream(Assoc(e), stream_id))
    /\ script' = NextScript("read", e, <<>>, {})
    /\ UNCHANGED <<net, budget>>
    /\ Idle

\* One armed timer of e has passed its deadline when on_timeout() is called.
NoneExpired == [t1 |-> {}, t3 |-> {}, t2 |-> FALSE, dack |-> FALSE, hb |-> {}, idle |-> {}]

Expirations(a) ==
    {[NoneExpired EXCEPT !.t1 = {p}] :
        p \in {q \in PathIds(a.recovery) : a.recovery.path_list[q + 1].t1_timeout}}
    \cup {[NoneExpired EXCEPT !.t3 = {p}] :
        p \in {q \in PathIds(a.recovery) : a.recovery.path_list[q + 1].t3_retrans_timeout}}
    \cup (IF a.recovery.t2_shutdown_timeout THEN {[NoneExpired EXCEPT !.t2 = TRUE]} ELSE {})
    \cup (IF a.delayed_ack_timeout THEN {[NoneExpired EXCEPT !.dack = TRUE]} ELSE {})

AppOnTimeout(e) ==
    /\ flushing = {}
    /\ Has(e) /\ ~Panicked(Assoc(e))
    /\ flushing' = {e}
    /\ budget.faults < MaxFaults
    /\ \E exp \in Expirations(Assoc(e)) :
          LET TimedOut(a) == a # Assoc(e) /\ SetAssoc(e, a)
          IN TimedOut(OnTimeout(Assoc(e), exp))
    /\ last_op' = Op("on_timeout", e, "Ok")
    /\ script' = NextScript("on_timeout", e, <<>>, {})
    /\ budget' = [budget EXCEPT !.faults = @ + 1]
    /\ UNCHANGED net
    /\ Idle

\* The network loses a datagram.
Lose(d) ==
    /\ flushing = {}
    /\ d \in net
    /\ budget.faults < MaxFaults
    /\ net' = net \ {d}
    /\ budget' = [budget EXCEPT !.faults = @ + 1]
    /\ UNCHANGED <<client, peers, flushing, last_op, script>>
    /\ Idle

\* Datagrams that reach an endpoint without its peer's application having sent
\* them: from a host that is no peer, and from a peer or an attacker that does
\* not follow the protocol.  They are made for the state the client is in.
ToClient(from, chunks) ==
    [from |-> from, to |-> ClientIp,
     header |-> [src_port |-> ServerPort, dst_port |-> ClientPort, vtag |-> ClientVtag],
     chunks |-> chunks]

ForgedData(tsn, stream_seq) ==
    [type |-> "Data", u_bit |-> FALSE, b_bit |-> TRUE, e_bit |-> TRUE, tsn |-> tsn,
     stream_id |-> 0, stream_seq |-> stream_seq, proto_id |-> 0, data |-> Bytes(9, 4)]

ForgedSack(a_rwnd) ==
    [type |-> "Sack", cum_ack |-> client.recovery.cum_ack, a_rwnd |-> a_rwnd,
     gap_acks |-> <<>>]

\* The COOKIE-ECHO of an attacker who made the cookie with a key of its own.
ForgedCookieEcho ==
    [type |-> "CookieEcho",
     cookie |-> StateCookieToBytes(
                    [init |-> InitChunk("Init", ClientVtag, ClientInitTsn, <<ClientIp>>),
                     init_ack |-> InitAckChunk(ServerVtag, ServerInitTsn, <<>>),
                     my_vtag |-> ServerVtag, peer_vtag |-> ClientVtag,
                     src_port |-> ServerPort, dst_port |-> ClientPort,
                     dst_addr |-> ClientIp], ForgedKey)]

\* A datagram of a host that has no association with the server.
ToServer(chunks) ==
    [from |-> ForeignIp, to |-> ServerIp,
     header |-> [src_port |-> ClientPort, dst_port |-> ServerPort, vtag |-> 0],
     chunks |-> chunks]

Forgeries ==
    {ToClient(ForeignIp, <<[type |-> "CookieAck"]>>),
     ToServer(<<ForgedData(ClientInitTsn, 0)>>),
     ToServer(<<[type |-> "ShutdownAck"]>>),
     ToClient(ServerIp, <<InitAckChunk(ServerVtag, ServerInitTsn, <<>>)>>),
     ToClient(ServerIp, <<ForgedSack(SmallRwnd)>>),
     [from |-> ClientIp, to |-> ServerIp,
      header |-> [src_port |-> ClientPort, dst_port |-> ServerPort, vtag |-> ServerVtag],
      chunks |-> <<ForgedCookieEcho>>]}
    \cup (IF client.stream_in = <<>> THEN {}
          ELSE {ToClient(ServerIp,
                         <<ForgedData(TsnAdd(client.mapping_array.cummulative_tsn, 1),
                                      client.stream_in[1].next_seq),
                           ForgedSack(MY_A_RWND)>>),
                ToClient(ServerIp,
                         <<ForgedData(TsnAdd(client.mapping_array.cummulative_tsn, 1),
                                      SsnAdd(client.stream_in[1].next_seq, SsnMod - 1))>>)})

Inject(d) ==
    /\ flushing = {}
    /\ budget.faults < MaxFaults
    /\ d \notin net
    /\ net' = net \cup {d}
    /\ budget' = [budget EXCEPT !.faults = @ + 1]
    /\ UNCHANGED <<client, peers, flushing, last_op, script>>
    /\ Idle

AssocNext ==
    \/ \E e \in Endpoints, checked \in BOOLEAN : AppSend(e, checked)
    \/ \E d \in net : ClientRecv(d)
    \/ \E d \in net : ServerRecv(d)
    \/ \E d \in net : ServerAccept(d, ServerVtag, ServerInitTsn)
    \/ \E e \in Closers : AppClose(e)
    \/ \E e \in Writers, id \in StreamIds, n \in WriteSizes : AppWrite(e, id, n, FALSE)
    \/ \E e \in Endpoints, id \in StreamIds : AppRead(e, id)
    \/ \E e \in Endpoints : AppOnTimeout(e)
    \/ \E d \in net : Lose(d)
    \/ \E d \in Forgeries : Inject(d)

InitAssoc == AssocInit /\ MapIdle /\ StreamIdle /\ RestIdle
SpecAssoc == InitAssoc /\ [][AssocNext]_vars

\* ------------------------------------------------------------------------
\* A sending association and an honest receiver.  The sender is the client
\* after its handshake; the receiver records the TSNs that reach it and
\* answers every DATA with the SACK of what it holds, which the sender takes
\* at once through recv().  The network delivers the DATA of wire in any
\* order and may lose them; the application writes whole messages and calls
\* send() after every other call until it gives Done.
\* ------------------------------------------------------------------------
MaxData == 7
MaxLosses == 1
MaxTimeouts == 5
ReorderWindow == 2
DataSize == 1436

RECURSIVE FlushAll(_)
FlushAll(a) ==
    LET Sent(s) == IF s.res = "Ok" THEN FlushAll(s.a) ELSE s.a
    IN Sent(Send(a, FALSE))

\* The INIT-ACK the server's accept() writes for the INIT of a.
InitAckFor(init) ==
    AcceptInit(ClientIp, [src_port |-> ClientPort, dst_port |-> ServerPort, vtag |-> 0],
               init, SecretKey, ServerVtag, ServerInitTsn).sbuf[1].chunks

EstablishedSender ==
    LET Answered(s) == FlushAll(Recv(s.a, ServerIp, InitAckFor(s.sbuf[1].chunks[1])).a)
        Echoed(a) == FlushAll(Recv(a, ServerIp, <<[type |-> "CookieAck"]>>).a)
    IN Echoed(Answered(Send(Connect(ClientPort, ServerPort, <<ClientIp>>, ServerIp,
                                    ClientVtag, ClientInitTsn), FALSE)))

\* The SACK of a receiver that holds the TSNs of got.
RECURSIVE CumOf(_, _)
CumOf(got, cum) == IF TsnAdd(cum, 1) \in got THEN CumOf(got, TsnAdd(cum, 1)) ELSE cum

RECURSIVE GapRuns(_, _, _, _)
GapRuns(offs, k, hi, open) ==
    IF k > hi
    THEN IF open = <<>> THEN <<>> ELSE <<[start |-> open[1], end |-> hi]>>
    ELSE IF k \in offs
    THEN GapRuns(offs, k + 1, hi, IF open = <<>> THEN <<k>> ELSE open)
    ELSE (IF open = <<>> THEN <<>> ELSE <<[start |-> open[1], end |-> k - 1]>>)
         \o GapRuns(offs, k + 1, hi, <<>>)

HonestSack(got) ==
    LET cum == CumOf(got, TsnSub(ClientInitTsn, 1))
        offs == {TsnSub(t, cum) : t \in {u \in got : SerialGt(u, cum)}}
    IN [type |-> "Sack", cum_ack |-> cum, a_rwnd |-> MY_A_RWND,
        gap_acks |-> IF offs = {} THEN <<>> ELSE GapRuns(offs, 1, SetMax(offs), <<>>)]

\* The n serially lowest TSNs of S: the network delivers a DATA before at most
\* n - 1 older ones, and loses only the oldest it carries.
Oldest(S, n) == {t \in S : Cardinality({u \in S : SerialLt(u, t)}) < n}

PrimaryOf(a) == a.recovery.path_list[a.recovery.primary_path + 1]

\* The TSNs the recovery engine holds in state st.
TsnsIn(a, st) ==
    {TsnQueueTsn(a.recovery.data_sent, i) :
        i \in {j \in 1..Len(a.recovery.data_sent.array) :
                  a.recovery.data_sent.array[j].state = st}}

DataTsns(sbuf) ==
    LET chunks == IF sbuf = <<>> THEN <<>> ELSE sbuf[1].chunks
        data == SelectSeq(chunks, LAMBDA c : c.type = "Data")
    IN [i \in 1..Len(data) |-> data[i].tsn]

Before(op, res, tsns, flush, lost, due, burst) ==
    [op |-> op, res |-> res, tsns |-> tsns, flush |-> flush, burst |-> burst,
     cwnd |-> PrimaryOf(sender).cwnd,
     fast_recovery |-> sender.recovery.fast_recovery,
     recovery_point |-> sender.recovery.recovery_point,
     outstanding |-> {TsnQueueTsn(sender.recovery.data_sent, i) :
                         i \in 1..Len(sender.recovery.data_sent.array)},
     lost |-> lost, due |-> due]

SenderInit ==
    /\ sender = EstablishedSender
    /\ wire = {}
    /\ peer_got = {}
    /\ sender_op = NoSenderOp
    /\ misses = <<>>
    /\ spent = NothingSpent

SenderIdleRest == UNCHANGED <<mapVars, streamVars, assocVars, outVars>>

\* The application is a bulk sender: it hands over its messages before its
\* first call of send().
SenderWrite ==
    /\ ~Panicked(sender)
    /\ DOMAIN misses = {}
    /\ spent.writes < MaxData
    /\ LET Written(w) ==
               /\ sender' = w.a
               /\ sender_op' = Before("write", w.res, <<>>, TRUE, {}, sender_op.due,
                                      sender_op.burst)
       IN Written(WriteIntoStream(sender, 0, Bytes(spent.writes, DataSize), FALSE, TRUE))
    /\ spent' = [spent EXCEPT !.writes = @ + 1]
    /\ UNCHANGED <<wire, peer_got, misses>>
    /\ SenderIdleRest

\* The datagram carries a DATA that was sent before.
Retransmits(sbuf) == \E i \in 1..Len(DataTsns(sbuf)) : DataTsns(sbuf)[i] \in DOMAIN misses

\* One send(); the DATA of the datagram it wrote is on the wire.  The first
\* send() after a SACK is the one that owes the fast retransmissions.
SenderSend ==
    /\ sender_op.flush /\ ~Panicked(sender)
    /\ LET Sent(s) ==
               /\ sender' = s.a
               /\ wire' = wire \cup {DataTsns(s.sbuf)[i] : i \in 1..Len(DataTsns(s.sbuf))}
               /\ misses' = [t \in DOMAIN misses
                                   \cup {DataTsns(s.sbuf)[i] : i \in 1..Len(DataTsns(s.sbuf))}
                               |-> IF t \in DOMAIN misses THEN misses[t] ELSE 0]
               /\ sender_op' = Before("send", s.res, DataTsns(s.sbuf), s.res = "Ok", {},
                                      IF sender_op.op = "send" THEN {} ELSE sender_op.due,
                                      IF s.res # "Ok" THEN 0
                                      ELSE IF Retransmits(s.sbuf) THEN sender_op.burst
                                      ELSE sender_op.burst + 1)
       IN Sent(Send(sender, FALSE))
    /\ UNCHANGED <<peer_got, spent>>
    /\ SenderIdleRest

\* A DATA reaches the receiver, and its SACK the sender.  A chunk the sender
\* holds as Sent, that the SACK does not acknowledge, and whose TSN is below the
\* highest TSN the SACK acknowledges for the first time, is missed once more;
\* the third miss makes it lost, and due for a fast retransmission if it was
\* never lost so before.
Missed(t) ==
    IF t \in peer_got THEN {}
    ELSE {u \in TsnsIn(sender, "Sent") : u \notin peer_got /\ SerialLt(u, t)}

PeerDeliver(t) ==
    /\ ~sender_op.flush /\ ~Panicked(sender)
    /\ t \in Oldest(wire, ReorderWindow)
    /\ wire' = wire \ {t}
    /\ peer_got' = peer_got \cup {t}
    /\ LET lost == {u \in Missed(t) : misses[u] + 1 >= DUP_THRESH}
           Received(r) ==
               /\ sender' = r.a
               /\ sender_op' = Before("sack", r.res, <<>>, TRUE, lost,
                                      sender_op.due \cup (lost \ spent.fast),
                                      sender_op.burst)
       IN /\ Received(Recv(sender, ServerIp, <<HonestSack(peer_got \cup {t})>>))
          /\ misses' = [u \in DOMAIN misses |->
                           IF u \in lost THEN 0
                           ELSE IF u \in Missed(t) THEN misses[u] + 1 ELSE misses[u]]
          /\ spent' = [spent EXCEPT !.fast = @ \cup lost]
    /\ SenderIdleRest

\* The network loses a DATA; it loses the copies of at most MaxLosses TSNs.
NetLose(t) ==
    /\ ~sender_op.flush
    /\ t \in Oldest(wire, 1)
    /\ Cardinality(spent.losses \cup {t}) <= MaxLosses
    /\ wire' = wire \ {t}
    /\ spent' = [spent EXCEPT !.losses = @ \cup {t}]
    /\ UNCHANGED <<sender, peer_got, sender_op, misses>>
    /\ SenderIdleRest

\* The T3 timer of the primary path expires and the application calls
\* on_timeout(); the retransmission timeout is longer than the network holds a
\* datagram.
SenderTimeout ==
    /\ ~sender_op.flush /\ ~Panicked(sender)
    /\ wire = {}
    /\ spent.timeouts < MaxTimeouts
    /\ PrimaryOf(sender).t3_retrans_timeout
    /\ sender' = OnTimeout(sender, [NoneExpired EXCEPT !.t3 = {sender.recovery.primary_path}])
    /\ sender_op' = Before("timeout", "Ok", <<>>, TRUE, {}, {}, sender_op.burst)
    /\ spent' = [spent EXCEPT !.timeouts = @ + 1]
    /\ UNCHANGED <<wire, peer_got, misses>>
    /\ SenderIdleRest

SenderNext ==
    \/ SenderWrite
    \/ SenderSend
    \/ \E t \in wire : PeerDeliver(t)
    \/ \E t \in wire : NetLose(t)
    \/ SenderTimeout

InitSender == SenderInit /\ MapIdle /\ StreamIdle /\ AssocIdle /\ OutIdle
SpecSender == InitSender /\ [][SenderNext]_vars

\* ------------------------------------------------------------------------
\* One outbound stream.  The application writes messages piece by piece, the
\* association asks for DATA chunks with the fragment point that its window
\* and the datagram leave.  written holds the messages as the application
\* wrote them, generated the chunks in the order generate_data() gave them,
\* each with next_seq before and after the call.
\* ------------------------------------------------------------------------
MaxOutWrites == 3
MaxChunks == 4
WriteLens == {0, 3}
FragmentPoints == {0, 2, 4}
\* next_seq of a new stream, and just before it wraps.
NextSeqChoices == {0, SsnMod - 1}

OutOpen == written # <<>> /\ ~written[Len(written)].complete

RECURSIVE OutWrites(_)
OutWrites(w) == IF w = <<>> THEN 0 ELSE Head(w).writes + OutWrites(Tail(w))

\* The message the caller's writes make: a write goes on with the message that
\* the last write left incomplete, or begins one.
Wrote(w, rbuf, is_unordered, is_complete) ==
    IF w # <<>> /\ ~w[Len(w)].complete
    THEN [w EXCEPT ![Len(w)].data = @ \o rbuf, ![Len(w)].complete = is_complete,
                   ![Len(w)].writes = @ + 1]
    ELSE Append(w, [unordeded |-> is_unordered, complete |-> is_complete,
                    data |-> rbuf, writes |-> 1])

OutInit ==
    /\ stream_out \in {[StreamOutNew(0) EXCEPT !.next_seq = s] : s \in NextSeqChoices}
    /\ written = <<>>
    /\ generated = <<>>

OutRest == UNCHANGED <<mapVars, streamVars, assocVars, senderVars>>

\* write(rbuf, is_unordered, is_complete); the pieces of one message are
\* written with the same is_unordered.
OutWrite(n, is_unordered, is_complete) ==
    /\ OutWrites(written) < MaxOutWrites
    /\ OutOpen => is_unordered = written[Len(written)].unordeded
    /\ LET rbuf == Bytes(<<Len(written), IF OutOpen THEN written[Len(written)].writes ELSE 0>>, n)
       IN /\ stream_out' = StreamOutWrite(stream_out, rbuf, is_unordered, is_complete)
          /\ written' = Wrote(written, rbuf, is_unordered, is_complete)
    /\ UNCHANGED generated
    /\ OutRest

\* generate_data(tsn, fragment_point); with nothing pending it gives Ok(None)
\* and changes nothing.
OutGenerate(fragment_point) ==
    /\ stream_out.pending_queue # <<>>
    /\ Len(generated) < MaxChunks
    /\ LET Result(g) ==
               /\ stream_out' = g.so
               /\ generated' = Append(generated, [chunk |-> g.chunk,
                                                  seq_before |-> stream_out.next_seq,
                                                  seq_after |-> g.so.next_seq])
       IN Result(GenerateData(stream_out, ClientInitTsn + Len(generated), fragment_point))
    /\ UNCHANGED written
    /\ OutRest

OutNext ==
    \/ \E n \in WriteLens, u \in BOOLEAN, c \in BOOLEAN : OutWrite(n, u, c)
    \/ \E fp \in FragmentPoints : OutGenerate(fp)

InitOut == OutInit /\ MapIdle /\ StreamIdle /\ AssocIdle /\ SenderIdle

SpecOut == InitOut /\ [][OutNext]_vars

\* ------------------------------------------------------------------------
\* Two established endpoints that both close.  The association of the client
\* is the one its handshake made, that of the server the one accept() made of
\* the client's COOKIE-ECHO; nothing is written.  Either application may call
\* close() while its association is Established; every datagram stays in the
\* network until it is received, and an armed T2 timer may expire at any time.
\* ------------------------------------------------------------------------
CookieEchoOfClient ==
    LET Echo(s) == Send(Recv(s.a, ServerIp, InitAckFor(s.sbuf[1].chunks[1])).a,
                        FALSE).sbuf[1].chunks[1]
    IN Echo(Send(Connect(ClientPort, ServerPort, <<ClientIp>>, ServerIp,
                         ClientVtag, ClientInitTsn), FALSE))

EstablishedServer == FlushAll(AcceptCookieEcho(CookieEchoOfClient, SecretKey).assoc[1])

ClientKey == [src_port |-> ClientPort, dst_port |-> ServerPort, vtag |-> ServerVtag]

CrossInit ==
    /\ client = EstablishedSender
    /\ peers = <<[key |-> ClientKey, assoc |-> EstablishedServer]>>
    /\ net = {}
    /\ flushing = {}
    /\ last_op = NoOp
    /\ script = NoScript
    /\ budget = NoBudget

\* close() by an application whose association is Established.
CrossClose(e) == Assoc(e).state = "Established" /\ AppClose(e)

\* on_timeout() with the T2 timer expired.
CrossTimeout(e) ==
    /\ flushing = {}
    /\ ~Panicked(Assoc(e))
    /\ Assoc(e).recovery.t2_shutdown_timeout
    /\ flushing' = {e}
    /\ SetAssoc(e, OnTimeout(Assoc(e), [NoneExpired EXCEPT !.t2 = TRUE]))
    /\ last_op' = Op("on_timeout", e, "Ok")
    /\ script' = NextScript("on_timeout", e, <<>>, {})
    /\ UNCHANGED <<net, budget>>
    /\ Idle

CrossSend == \E e \in Endpoints, checked \in BOOLEAN : AppSend(e, checked)
CrossRecv(e) == \E d \in net : IF e = "c" THEN ClientRecv(d) ELSE ServerRecv(d)

CrossNext ==
    \/ \E e \in Endpoints : CrossClose(e)
    \/ CrossSend
    \/ \E e \in Endpoints : CrossRecv(e)
    \/ \E e \in Endpoints : CrossTimeout(e)

InitCross == CrossInit /\ MapIdle /\ StreamIdle /\ RestIdle

SpecCross == InitCross /\ [][CrossNext]_vars

\* The loop that calls send() after each call runs until send() gives Done, so
\* flushing is empty again and again; whenever it is, the event loop receives
\* a datagram that waits or services a timer that has expired, and neither is
\* put off for ever.
SpecCrossFair ==
    /\ SpecCross
    /\ []<>(flushing = {})
    /\ \A e \in Endpoints : SF_vars(CrossRecv(e)) /\ SF_vars(CrossTimeout(e))

\* ------------------------------------------------------------------------
\* The handshake over a network that loses, delays and duplicates datagrams.
\* The client starts in CookieWait with its INIT queued; the server answers
\* with accept().  The T1 timer of the client's path may expire whenever it is
\* armed, up to MaxT1Expiries times; a datagram may be lost at any time, and a
\* datagram the client receives may stay in the network to arrive again.
\* ------------------------------------------------------------------------
MaxT1Expiries == 6

T1Send == \E e \in Endpoints, checked \in BOOLEAN : AppSend(e, checked)

\* on_timeout() of the client with the T1 timer of path 0 expired.
T1Expire ==
    /\ flushing = {}
    /\ ~Panicked(client)
    /\ client.recovery.path_list[1].t1_timeout
    /\ budget.faults < MaxT1Expiries
    /\ flushing' = {"c"}
    /\ client' = OnTimeout(client, [NoneExpired EXCEPT !.t1 = {0}])
    /\ last_op' = Op("on_timeout", "c", "Ok")
    /\ script' = NextScript("on_timeout", "c", <<>>, {})
    /\ budget' = [budget EXCEPT !.faults = @ + 1]
    /\ UNCHANGED <<peers, net>>
    /\ Idle

\* recv() of the client; with keep the network delivers a copy and the
\* datagram arrives once more later.
T1ClientRecv(d, keep) ==
    /\ flushing = {}
    /\ d \in net /\ d.to = ClientIp
    /\ ~Panicked(client)
    /\ flushing' = {"c"}
    /\ LET Received(r) ==
               /\ client' = r.a
               /\ net' = (IF keep THEN net ELSE net \ {d})
                             \cup Datagrams(r.sbuf, ClientIp, d.from)
               /\ last_op' = Op("recv", "c", r.res)
               /\ script' = NextScript("recv", "c", <<d>>,
                                        Datagrams(r.sbuf, ClientIp, d.from))
       IN Received(Recv(client, d.from, d.chunks))
    /\ UNCHANGED <<peers, budget>>
    /\ Idle

T1Lose(d) ==
    /\ flushing = {}
    /\ d \in net
    /\ net' = net \ {d}
    /\ UNCHANGED <<client, peers, flushing, last_op, script, budget>>
    /\ Idle

T1Next ==
    \/ T1Send
    \/ T1Expire
    \/ \E d \in net, keep \in BOOLEAN : T1ClientRecv(d, keep)
    \/ \E d \in net : ServerAccept(d, ServerVtag, ServerInitTsn)
    \/ \E d \in net : ServerRecv(d)
    \/ \E d \in net : T1Lose(d)

InitT1 == AssocInit /\ MapIdle /\ StreamIdle /\ RestIdle

SpecT1 == InitT1 /\ [][T1Next]_vars

\* ------------------------------------------------------------------------
\* The sender of an application that writes whenever it likes, over a network
\* that loses nothing but may deliver a SACK twice.  A message fills a DATA
\* chunk of exactly the path's mtu, so that whole chunks fill cwnd exactly.
\* ------------------------------------------------------------------------
MaxCwndData == 6
FullDataSize == 1444
MaxCwnd == 10220

CwndWrite ==
    /\ ~Panicked(sender)
    /\ ~sender_op.flush
    /\ spent.writes < MaxCwndData
    /\ LET Written(w) ==
               /\ sender' = w.a
               /\ sender_op' = Before("write", w.res, <<>>, TRUE, {}, sender_op.due,
                                      sender_op.burst)
       IN Written(WriteIntoStream(sender, 0, Bytes(spent.writes, FullDataSize), FALSE, TRUE))
    /\ spent' = [spent EXCEPT !.writes = @ + 1]
    /\ UNCHANGED <<wire, peer_got, misses>>
    /\ SenderIdleRest

\* The SACK the receiver sent last arrives once more.
CwndDupSack ==
    /\ ~sender_op.flush /\ ~Panicked(sender)
    /\ peer_got # {}
    /\ PrimaryOf(sender).cwnd < MaxCwnd
    /\ LET Received(r) ==
               /\ sender' = r.a
               /\ sender_op' = Before("sack", r.res, <<>>, TRUE, {}, sender_op.due,
                                      sender_op.burst)
       IN Received(Recv(sender, ServerIp, <<HonestSack(peer_got)>>))
    /\ UNCHANGED <<wire, peer_got, misses, spent>>
    /\ SenderIdleRest

CwndNext ==
    \/ CwndWrite
    \/ SenderSend
    \/ \E t \in wire : PeerDeliver(t)
    \/ CwndDupSack

SpecCwnd == InitSender /\ [][CwndNext]_vars

\* ------------------------------------------------------------------------
\* The bulk sender that closes: the application writes its messages, sends
\* until send() gives Done, and may call close() whenever it is not in its
\* send loop; the network may lose the copies of a DATA, and T3 may expire.
\* ------------------------------------------------------------------------
MaxDrainData == 5

SenderClose ==
    /\ ~sender_op.flush /\ ~Panicked(sender)
    /\ sender.state = "Established"
    /\ LET Closed(c) ==
               /\ sender' = c.a
               /\ sender_op' = Before("close", c.res, <<>>, TRUE, {}, sender_op.due,
                                      sender_op.burst)
       IN Closed(Close(sender))
    /\ UNCHANGED <<wire, peer_got, misses, spent>>
    /\ SenderIdleRest

\* The application writes only before it closes.
DrainWrite == sender.state = "Established" /\ spent.writes < MaxDrainData /\ SenderWrite

DrainNext ==
    \/ DrainWrite
    \/ SenderSend
    \/ \E t \in wire : PeerDeliver(t)
    \/ \E t \in wire : NetLose(t)
    \/ SenderTimeout
    \/ SenderClose

SpecDrain == InitSender /\ [][DrainNext]_vars

\* ------------------------------------------------------------------------
\* A sender whose application calls send() for one datagram at a time and
\* handles a datagram from the peer between two such calls.  The peer sends
\* single-chunk messages on stream 0, in order.
\* ------------------------------------------------------------------------
MaxBurstData == 5
MaxPeerData == 2

\* The number of DATA chunks of the peer the sender has received.
PeerDataSeen == TsnSub(TsnAdd(sender.mapping_array.cummulative_tsn, 1), ServerInitTsn)

PeerData(k) ==
    [type |-> "Data", u_bit |-> FALSE, b_bit |-> TRUE, e_bit |-> TRUE,
     tsn |-> TsnAdd(ServerInitTsn, k), stream_id |-> 0, stream_seq |-> k,
     proto_id |-> 0, data |-> Bytes(9, 4)]

BurstWrite == spent.writes < MaxBurstData /\ SenderWrite

\* recv() of the next DATA of the peer.
BurstRecvData ==
    /\ ~Panicked(sender)
    /\ PeerDataSeen < MaxPeerData
    /\ LET Received(r) ==
               /\ sender' = r.a
               /\ sender_op' = Before("data", r.res, <<>>, TRUE, {}, sender_op.due,
                                      sender_op.burst)
       IN Received(Recv(sender, ServerIp, <<PeerData(PeerDataSeen)>>))
    /\ UNCHANGED <<wire, peer_got, misses, spent>>
    /\ SenderIdleRest

BurstNext ==
    \/ BurstWrite
    \/ SenderSend
    \/ BurstRecvData
    \/ \E t \in wire : PeerDeliver(t)

SpecBurst == InitSender /\ [][BurstNext]_vars
\* ------------------------------------------------------------------------
\* One outbound stream of a sender and the inbound stream of its peer.  The
\* application writes messages, generate_data() makes their DATA chunks, and
\* the network hands every chunk once, in any order, to recv() of the inbound
\* stream, from which the peer's application reads.  delivered holds the
\* positions in generated of the chunks that were received.
\* ------------------------------------------------------------------------
\* Every write brings PipeWriteLen bytes; a chunk takes a part of the message
\* or all of it.
PipeWriteLen == 3
PipePoints == {2, 2 * PipeWriteLen}

PipeInit ==
    /\ OutInit
    /\ stream_in = [StreamInNew(0) EXCEPT !.next_seq = stream_out.next_seq]
    /\ first_tsn = 0
    /\ delivered = {}
    /\ misordered = {}
    /\ stream_res = "Ok"
    /\ read_log = <<>>

\* The association of the peer passes chunk i to SctpStreamIn::recv.
PipeRecv(i) ==
    /\ stream_res # "panic"
    /\ i \in 1..Len(generated) /\ i \notin delivered
    /\ LET Received(r) ==
               /\ stream_in' = r.si
               /\ stream_res' = r.res
       IN Received(StreamInRecv(stream_in, generated[i].chunk))
    /\ delivered' = delivered \cup {i}
    /\ UNCHANGED <<first_tsn, misordered, read_log, mapVars, assocVars, restVars>>

PipeNext ==
    \/ \E u \in BOOLEAN, c \in BOOLEAN : OutWrite(PipeWriteLen, u, c)
    \/ \E fp \in PipePoints : OutGenerate(fp)
    \/ \E i \in 1..MaxChunks : PipeRecv(i)
    \/ StreamRead

InitPipe == PipeInit /\ MapIdle /\ AssocIdle /\ SenderIdle

SpecPipe == InitPipe /\ [][PipeNext]_vars

\* ------------------------------------------------------------------------
\* One inbound stream whose peer does not keep to the rules: it sends ordered
\* chunks with any begin and end bits, with either of two stream sequence
\* numbers and with TSNs it has used before.  delivered is the sequence of
\* the chunks that were handed to recv().
\* ------------------------------------------------------------------------
MaxConflictRecvs == 3
MaxConflictOff == 2

OrderedChunk(off, seq, b, e) ==
    [u_bit |-> FALSE, b_bit |-> b, e_bit |-> e, tsn |-> TsnAdd(first_tsn, off),
     stream_id |-> 0, stream_seq |-> seq, data |-> Bytes(off, 1)]

ConflictInit ==
    /\ stream_in = StreamInNew(0)
    /\ first_tsn \in {10, TsnMod - 1}
    /\ delivered = <<>>
    /\ misordered = {}
    /\ stream_res = "Ok"
    /\ read_log = <<>>

\* The association passes an ordered chunk of the peer to SctpStreamIn::recv.
ConflictRecv(chunk) ==
    /\ stream_res # "panic"
    /\ Len(delivered) < MaxConflictRecvs
    /\ LET Received(r) ==
               /\ stream_in' = r.si
               /\ stream_res' = r.res
       IN Received(StreamInRecv(stream_in, chunk))
    /\ delivered' = Append(delivered, chunk)
    /\ UNCHANGED <<first_tsn, misordered, read_log, mapVars, assocVars, restVars>>

ConflictNext ==
    \/ \E off \in 0..MaxConflictOff, seq \in 0..1, b \in BOOLEAN, e \in BOOLEAN :
           ConflictRecv(OrderedChunk(off, seq, b, e))
    \/ StreamRead

InitConflict == ConflictInit /\ MapIdle /\ AssocIdle /\ RestIdle

SpecConflict == InitConflict /\ [][ConflictNext]_vars

\* ------------------------------------------------------------------------
\* A bulk sender that loses DATA and whose peer sends it one message: send()
\* then has retransmissions, a SACK and fresh DATA to choose from.  The DATA
\* of the peer may arrive between two calls of send().
\* ------------------------------------------------------------------------
MaxPrioPeerData == 1
MaxPrioTimeouts == 1

RetransWaiting(a) ==
    a.recovery.tsn_waiting_fast_retrans.tree_map # {}
    \/ a.recovery.tsn_waiting_t3_retrans.tree_map # {}

\* The DATA of the peer arrives while a retransmission waits for send().
PrioRecvData ==
    /\ sender_op.flush /\ RetransWaiting(sender)
    /\ PeerDataSeen < MaxPrioPeerData
    /\ BurstRecvData

\* The application has written all its messages before it calls send().
PrioSend == spent.writes = MaxData /\ SenderSend

PrioTimeout == spent.timeouts < MaxPrioTimeouts /\ SenderTimeout

PrioNext ==
    \/ SenderWrite
    \/ PrioSend
    \/ PrioRecvData
    \/ \E t \in wire : PeerDeliver(t)
    \/ \E t \in wire : NetLose(t)
    \/ PrioTimeout

SpecPrio == InitSender /\ [][PrioNext]_vars

\* ------------------------------------------------------------------------
\* An established client whose peer has two addresses: the INIT-ACK named the
\* second one, so that the client has path 0 (confirmed by the handshake, the
\* primary path) and path 1 (not confirmed).  Nothing is written.  The idle
\* timer of a path makes a HEARTBEAT; the network loses a HEARTBEAT or the peer
\* answers it with a HEARTBEAT-ACK that echoes its heartbeat info; the
\* heartbeat timer of a path expires; and somebody who does not know the
\* random values sends HEARTBEAT-ACKs of its own.  wire holds the HEARTBEATs
\* under way, spent.fast the forged HEARTBEAT-ACKs that were received, and
\* sender_op.ack the HEARTBEAT-ACK the last recv() was given.
\* ------------------------------------------------------------------------
ServerIp2 == "S2"
MaxHbTimeouts == 3
MaxHbForged == 1
\* A sequence that is out, and one that is not; an existing path and none; the
\* random value of path 0, that of path 1, and a guess.
ForgedHbAcks ==
    {[type |-> "HeartbeatAck", sequence |-> s, pathid |-> p, random_value |-> v] :
        s \in 0..1, p \in 0..2, v \in {0, RandomValue(1), 99}}

HbClient ==
    LET WithAddr(chunks) == <<[chunks[1] EXCEPT !.params = <<ServerIp2>>]>>
        Answered(s) ==
            FlushAll(Recv(s.a, ServerIp, WithAddr(InitAckFor(s.sbuf[1].chunks[1]))).a)
        Echoed(a) == FlushAll(Recv(a, ServerIp, <<[type |-> "CookieAck"]>>).a)
    IN Echoed(Answered(Send(Connect(ClientPort, ServerPort, <<ClientIp>>, ServerIp,
                                    ClientVtag, ClientInitTsn), FALSE)))

HbOp(op, res, flush, ack) == Before(op, res, <<>>, flush, {}, {}, 0) @@ [ack |-> ack]

HbInit ==
    /\ sender = HbClient
    /\ wire = {}
    /\ peer_got = {}
    /\ sender_op = HbOp("none", "", FALSE, <<>>)
    /\ misses = <<>>
    /\ spent = NothingSpent

\* on_timeout() with the idle timers of the paths of idle expired.
HbIdle(idle) ==
    /\ ~sender_op.flush /\ ~Panicked(sender)
    /\ spent.timeouts < MaxHbTimeouts
    /\ sender' = OnTimeout(sender, [NoneExpired EXCEPT !.idle = idle])
    /\ sender_op' = HbOp("idle", "Ok", TRUE, <<>>)
    /\ spent' = [spent EXCEPT !.timeouts = @ + 1]
    /\ UNCHANGED <<wire, peer_got, misses>>
    /\ SenderIdleRest

\* on_timeout() with the heartbeat timer of path p expired.
HbExpire(p) ==
    /\ ~sender_op.flush /\ ~Panicked(sender)
    /\ spent.timeouts < MaxHbTimeouts
    /\ HasPath(sender.recovery, p) /\ sender.recovery.path_list[p + 1].heartbeat_timeout
    /\ sender' = OnTimeout(sender, [NoneExpired EXCEPT !.hb = {p}])
    /\ sender_op' = HbOp("expire", "Ok", TRUE, <<>>)
    /\ spent' = [spent EXCEPT !.timeouts = @ + 1]
    /\ UNCHANGED <<wire, peer_got, misses>>
    /\ SenderIdleRest

HeartbeatsIn(sbuf) ==
    IF sbuf = <<>> THEN {}
    ELSE {sbuf[1].chunks[i] : i \in {j \in 1..Len(sbuf[1].chunks) :
                                        sbuf[1].chunks[j].type = "Heartbeat"}}

\* One send(); the HEARTBEATs of its datagram are under way.
HbSend ==
    /\ sender_op.flush /\ ~Panicked(sender)
    /\ LET Sent(s) ==
               /\ sender' = s.a
               /\ wire' = wire \cup HeartbeatsIn(s.sbuf)
               /\ sender_op' = HbOp("send", s.res, s.res = "Ok", <<>>)
       IN Sent(Send(sender, FALSE))
    /\ UNCHANGED <<peer_got, misses, spent>>
    /\ SenderIdleRest

\* recv() of a HEARTBEAT-ACK.
HbRecv(ack, from) ==
    LET Received(r) ==
            /\ sender' = r.a
            /\ sender_op' = HbOp("hback", r.res, TRUE, <<ack>>)
    IN Received(Recv(sender, from, <<ack>>))

\* The peer answers the HEARTBEAT h from the address it came to.
HbAck(h) ==
    /\ ~sender_op.flush /\ ~Panicked(sender)
    /\ h \in wire
    /\ HbRecv([h EXCEPT !.type = "HeartbeatAck"], GetRemoteIp(sender, h.pathid))
    /\ wire' = wire \ {h}
    /\ UNCHANGED <<peer_got, misses, spent>>
    /\ SenderIdleRest

HbLose(h) ==
    /\ ~sender_op.flush
    /\ h \in wire
    /\ wire' = wire \ {h}
    /\ UNCHANGED <<sender, peer_got, sender_op, misses, spent>>
    /\ SenderIdleRest

\* A HEARTBEAT-ACK that the peer did not send, with the source address of the
\* peer.
HbForge(ack) ==
    /\ ~sender_op.flush /\ ~Panicked(sender)
    /\ Cardinality(spent.fast) < MaxHbForged
    /\ HbRecv(ack, ServerIp)
    /\ spent' = [spent EXCEPT !.fast = @ \cup {ack}]
    /\ UNCHANGED <<wire, peer_got, misses>>
    /\ SenderIdleRest

HbNext ==
    \/ \E idle \in {{0}, {1}, {0, 1}} : HbIdle(idle)
    \/ \E p \in {0, 1} : HbExpire(p)
    \/ HbSend
    \/ \E h \in wire : HbAck(h)
    \/ \E h \in wire : HbLose(h)
    \/ \E ack \in ForgedHbAcks : HbForge(ack)

InitHb == HbInit /\ MapIdle /\ StreamIdle /\ AssocIdle /\ OutIdle

SpecHb == InitHb /\ [][HbNext]_vars

\* ------------------------------------------------------------------------
\* The handshake of the client while chunks arrive that the server did not
\* send in answer to it: a COOKIE-ACK, an INIT-ACK without a cookie and an
\* ABORT, each with the source address of the server and the verification tag
\* of the client, may be put into the network at any time, and a datagram
\* that the client receives may arrive once more.  last_op.chunks holds the
\* chunks of the datagram the last recv() of the client was given.
\* ------------------------------------------------------------------------
MaxHsFaults == 2

HsForgeries ==
    {ToClient(ServerIp, <<[type |-> "CookieAck"]>>),
     ToClient(ServerIp, <<InitAckChunk(ServerVtag, ServerInitTsn, <<>>)>>),
     ToClient(ServerIp, <<AbortChunk(FALSE, "None")>>)}

HsInject(d) ==
    /\ flushing = {}
    /\ budget.faults < MaxHsFaults
    /\ d \notin net
    /\ net' = net \cup {d}
    /\ budget' = [budget EXCEPT !.faults = @ + 1]
    /\ UNCHANGED <<client, peers, flushing, last_op, script>>
    /\ Idle

\* on_timeout() of the client with the T1 timer of path 0 expired.
HsExpire ==
    /\ flushing = {}
    /\ ~Panicked(client)
    /\ client.recovery.path_list[1].t1_timeout
    /\ budget.faults < MaxHsFaults
    /\ flushing' = {"c"}
    /\ client' = OnTimeout(client, [NoneExpired EXCEPT !.t1 = {0}])
    /\ last_op' = Op("on_timeout", "c", "Ok")
    /\ script' = NextScript("on_timeout", "c", <<>>, {})
    /\ budget' = [budget EXCEPT !.faults = @ + 1]
    /\ UNCHANGED <<peers, net>>
    /\ Idle

HsClientRecv(d, keep) ==
    /\ flushing = {}
    /\ d \in net /\ d.to = ClientIp
    /\ ~Panicked(client)
    /\ flushing' = {"c"}
    /\ LET Received(r) ==
               /\ client' = r.a
               /\ net' = (IF keep THEN net ELSE net \ {d})
                             \cup Datagrams(r.sbuf, ClientIp, d.from)
               /\ last_op' = Op("recv", "c", r.res) @@ [chunks |-> d.chunks]
               /\ script' = NextScript("recv", "c", <<d>>,
                                        Datagrams(r.sbuf, ClientIp, d.from))
       IN Received(Recv(client, d.from, d.chunks))
    /\ UNCHANGED <<peers, budget>>
    /\ Idle

HsNext ==
    \/ \E e \in Endpoints, checked \in BOOLEAN : AppSend(e, checked)
    \/ HsExpire
    \/ \E d \in net, keep \in BOOLEAN : HsClientRecv(d, keep)
    \/ \E d \in net : ServerAccept(d, ServerVtag, ServerInitTsn)
    \/ \E d \in net : ServerRecv(d)
    \/ \E d \in HsForgeries : HsInject(d)

InitHs == AssocInit /\ MapIdle /\ StreamIdle /\ RestIdle

SpecHs == InitHs /\ [][HsNext]_vars

\* ------------------------------------------------------------------------
\* The sender and SACKs that no receiver of its data would send.  The
\* application writes up to MaxSackData messages; the network delivers the
\* DATA in order and the receiver answers with its SACK; and up to
\* MaxForgedSacks SACKs arrive, with the source address of the peer, whose
\* cumulative TSN ack lies 0 to MaxSackAhead TSNs after the sender's
\* cumulative-ack point and whose gap-ack block, if there is one, starts at
\* the cumulative TSN ack itself or after it.  sender_op.sack holds the SACK
\* the last recv() was given.
\* ------------------------------------------------------------------------
MaxSackData == 2
MaxForgedSacks == 2
MaxSackAhead == 3

ForgedGaps ==
    {<<>>, <<[start |-> 0, end |-> 0]>>, <<[start |-> 1, end |-> 1]>>,
     <<[start |-> 2, end |-> 3]>>}

ForgedSacks(a) ==
    {[type |-> "Sack", cum_ack |-> TsnAdd(a.recovery.cum_ack, k), a_rwnd |-> MY_A_RWND,
      gap_acks |-> g] : k \in 0..MaxSackAhead, g \in ForgedGaps}

SackWrite ==
    /\ ~Panicked(sender)
    /\ ~sender_op.flush
    /\ spent.writes < MaxSackData
    /\ LET Written(w) ==
               /\ sender' = w.a
               /\ sender_op' = Before("write", w.res, <<>>, TRUE, {}, {}, 0)
       IN Written(WriteIntoStream(sender, 0, Bytes(spent.writes, DataSize), FALSE, TRUE))
    /\ spent' = [spent EXCEPT !.writes = @ + 1]
    /\ UNCHANGED <<wire, peer_got, misses>>
    /\ SenderIdleRest

SackSend ==
    /\ sender_op.flush /\ ~Panicked(sender)
    /\ LET Sent(s) ==
               /\ sender' = s.a
               /\ wire' = wire \cup {DataTsns(s.sbuf)[i] : i \in 1..Len(DataTsns(s.sbuf))}
               /\ sender_op' = Before("send", s.res, DataTsns(s.sbuf), s.res = "Ok", {}, {}, 0)
       IN Sent(Send(sender, FALSE))
    /\ UNCHANGED <<peer_got, misses, spent>>
    /\ SenderIdleRest

\* recv() of a SACK.
SackRecv(sack) ==
    LET Received(r) ==
            /\ sender' = r.a
            /\ sender_op' = Before("sack", r.res, <<>>, TRUE, {}, {}, 0) @@ [sack |-> sack]
    IN Received(Recv(sender, ServerIp, <<sack>>))

\* The oldest DATA on the wire arrives and the receiver's SACK comes back.
SackDeliver(t) ==
    /\ ~sender_op.flush /\ ~Panicked(sender)
    /\ t \in Oldest(wire, 1)
    /\ wire' = wire \ {t}
    /\ peer_got' = peer_got \cup {t}
    /\ SackRecv(HonestSack(peer_got \cup {t}))
    /\ UNCHANGED <<misses, spent>>
    /\ SenderIdleRest

SackForge(sack) ==
    /\ ~sender_op.flush /\ ~Panicked(sender)
    /\ spent.timeouts < MaxForgedSacks
    /\ SackRecv(sack)
    /\ spent' = [spent EXCEPT !.timeouts = @ + 1]
    /\ UNCHANGED <<wire, peer_got, misses>>
    /\ SenderIdleRest

SackNext ==
    \/ SackWrite
    \/ SackSend
    \/ \E t \in wire : SackDeliver(t)
    \/ \E sack \in ForgedSacks(sender) : SackForge(sack)

SpecSack == InitSender /\ [][SackNext]_vars

\* ------------------------------------------------------------------------
\* The mapping array fed with TSNs far ahead of base_tsn, and before it was
\* initialized.  The array is the one new() makes (a DATA chunk arrives before
\* the INIT-ACK) or the one initialize(init_tsn) makes; every recv() carries
\* one DATA chunk whose TSN lies FarOffs TSNs after init_tsn, around the last
\* bit of the 256 bytes and up to the last TSN that is serially not less than
\* base_tsn.
\* ------------------------------------------------------------------------
MaxFarRecvs == 3
FarOffs == {0, 1, 8 * StorageLen - 1, 8 * StorageLen, 8 * StorageLen + 8, TsnHalf - 1}

FarInit ==
    /\ init_tsn \in InitTsnChoices
    /\ mapping_array \in {MANew, MAInitialize(init_tsn)}
    /\ mapping_array = MANew => init_tsn = 0
    /\ recorded = {}
    /\ last_update = NoUpdate
    /\ recvs = 0

FarRecv(off) ==
    /\ last_update.res # "panic"
    /\ recvs < MaxFarRecvs
    /\ LET Ran(st) ==
               /\ mapping_array' = st.ma
               /\ recorded' = st.rec
               /\ last_update' = st.last
       IN Ran(MapRun([ma |-> mapping_array, rec |-> recorded, last |-> NoUpdate], off, 1))
    /\ recvs' = recvs + 1
    /\ UNCHANGED <<init_tsn, streamVars, assocVars, restVars>>

FarNext == \E off \in FarOffs : FarRecv(off)

InitFar == FarInit /\ StreamIdle /\ AssocIdle /\ RestIdle
SpecFar == InitFar /\ [][FarNext]_vars

\* ------------------------------------------------------------------------
\* One path from connect() to its failure.  The client starts with its INIT
\* queued; the peer answers the INIT and the COOKIE-ECHO that are outstanding,
\* acknowledges the data and echoes the HEARTBEATs, each whenever it likes or
\* never; the application writes up to MaxFailWrites messages; and every timer
\* of the path that is armed may expire: T1 before the association is
\* established, T3 while data is outstanding, the idle timer (that makes a
\* HEARTBEAT) and the heartbeat timer after it.  spent.timeouts counts the
\* expiries of T1, T3 and the heartbeat timer and spent.losses holds which of
\* them expired, spent.writes counts the writes, misses the expiries of the
\* idle timer, and peer_got holds the kinds of answers that were received.
\* ------------------------------------------------------------------------
MaxFailWrites == 1
MaxFailExpiries == 6
MaxFailIdle == 2

FailOp(op, res, flush) == [op |-> op, res |-> res, flush |-> flush]

FailInit ==
    /\ sender = Connect(ClientPort, ServerPort, <<ClientIp>>, ServerIp,
                        ClientVtag, ClientInitTsn)
    /\ wire = {}
    /\ peer_got = {}
    /\ sender_op = FailOp("connect", "Ok", TRUE)
    /\ misses = <<>>
    /\ spent = NothingSpent

FailPath(a) == a.recovery.path_list[1]

\* The INIT or COOKIE-ECHO that was sent and is not answered.
FailOutstanding(a) ==
    {FailPath(a).control_sent[i] : i \in 1..Len(FailPath(a).control_sent)}

FailSend ==
    /\ sender_op.flush /\ ~Panicked(sender)
    /\ LET Sent(s) ==
               /\ sender' = s.a
               /\ wire' = wire \cup HeartbeatsIn(s.sbuf)
               /\ sender_op' = FailOp("send", s.res, s.res = "Ok")
       IN Sent(Send(sender, FALSE))
    /\ UNCHANGED <<peer_got, misses, spent>>
    /\ SenderIdleRest

\* recv() of the chunks the peer sends.
FailRecv(op, chunks) ==
    /\ ~sender_op.flush /\ ~Panicked(sender)
    /\ LET Received(r) ==
               /\ sender' = r.a
               /\ sender_op' = FailOp(op, r.res, TRUE)
       IN Received(Recv(sender, ServerIp, chunks))
    /\ peer_got' = peer_got \cup {op}
    /\ SenderIdleRest

\* The peer answers the INIT or the COOKIE-ECHO that is outstanding.
FailHandshake ==
    /\ FailOutstanding(sender) # {}
    /\ \E c \in FailOutstanding(sender) :
           FailRecv("t1ack", IF c.type = "Init" THEN InitAckFor(c)
                             ELSE <<[type |-> "CookieAck"]>>)
    /\ UNCHANGED <<wire, misses, spent>>

FailWrite ==
    /\ ~sender_op.flush /\ ~Panicked(sender)
    /\ sender.state = "Established"
    /\ spent.writes < MaxFailWrites
    /\ LET Written(w) ==
               /\ sender' = w.a
               /\ sender_op' = FailOp("write", w.res, TRUE)
       IN Written(WriteIntoStream(sender, 0, Bytes(spent.writes, DataSize), FALSE, TRUE))
    /\ spent' = [spent EXCEPT !.writes = @ + 1]
    /\ UNCHANGED <<wire, peer_got, misses>>
    /\ SenderIdleRest

\* The peer acknowledges all the data that is outstanding.
FailSack ==
    /\ sender.recovery.data_sent.array # <<>>
    /\ FailRecv("sack", <<[type |-> "Sack", cum_ack |-> sender.recovery.largest_tsn,
                           a_rwnd |-> MY_A_RWND, gap_acks |-> <<>>]>>)
    /\ UNCHANGED <<wire, misses, spent>>

\* The peer echoes the HEARTBEAT h.
FailHeartbeatAck(h) ==
    /\ h \in wire
    /\ FailRecv("hback", <<[h EXCEPT !.type = "HeartbeatAck"]>>)
    /\ wire' = wire \ {h}
    /\ UNCHANGED <<misses, spent>>

FailExpirations(a) ==
    (IF ~a.recovery.established /\ FailPath(a).t1_timeout
     THEN {[NoneExpired EXCEPT !.t1 = {0}]} ELSE {})
    \cup (IF FailPath(a).t3_retrans_timeout THEN {[NoneExpired EXCEPT !.t3 = {0}]} ELSE {})
    \cup (IF a.recovery.established /\ FailPath(a).heartbeat_timeout
          THEN {[NoneExpired EXCEPT !.hb = {0}]} ELSE {})

\* on_timeout() with T1, T3 or the heartbeat timer of the path expired.
FailExpire(exp) ==
    /\ ~sender_op.flush /\ ~Panicked(sender)
    /\ exp \in FailExpirations(sender)
    /\ spent.timeouts < MaxFailExpiries
    /\ sender' = OnTimeout(sender, exp)
    /\ sender_op' = FailOp("expire", "Ok", TRUE)
    /\ spent' = [spent EXCEPT !.timeouts = @ + 1,
                              !.losses = @ \cup {IF exp.t1 # {} THEN "t1"
                                                 ELSE IF exp.t3 # {} THEN "t3" ELSE "hb"}]
    /\ UNCHANGED <<wire, peer_got, misses>>
    /\ SenderIdleRest

\* on_timeout() with the idle timer of the path expired.
FailIdle ==
    /\ ~sender_op.flush /\ ~Panicked(sender)
    /\ sender.recovery.established
    /\ Len(misses) < MaxFailIdle
    /\ sender' = OnTimeout(sender, [NoneExpired EXCEPT !.idle = {0}])
    /\ sender_op' = FailOp("idle", "Ok", TRUE)
    /\ misses' = Append(misses, 0)
    /\ UNCHANGED <<wire, peer_got, spent>>
    /\ SenderIdleRest

FailNext ==
    \/ FailSend
    \/ FailHandshake
    \/ FailWrite
    \/ FailSack
    \/ \E h \in wire : FailHeartbeatAck(h)
    \/ \E exp \in FailExpirations(sender) : FailExpire(exp)
    \/ FailIdle

InitFail == FailInit /\ MapIdle /\ StreamIdle /\ AssocIdle /\ OutIdle

SpecFail == InitFail /\ [][FailNext]_vars


\* ------------------------------------------------------------------------
\* Claims about the mapping array
\* ------------------------------------------------------------------------
RecordedTsns == {TsnAdd(init_tsn, off) : off \in recorded}

\* The offsets from cumulative_tsn of the recorded TSNs above it.
RecordedAboveCum ==
    {TsnSub(t, mapping_array.cummulative_tsn) :
        t \in {u \in RecordedTsns : SerialGt(u, mapping_array.cummulative_tsn)}}

BlocksCover(blocks) == UNION {blocks[i].start .. blocks[i].end : i \in 1..Len(blocks)}

BlocksMinimal(blocks) ==
    /\ \A i \in 1..Len(blocks) : blocks[i].start <= blocks[i].end
    /\ \A i \in 1..(Len(blocks) - 1) : blocks[i + 1].start > blocks[i].end + 1

SackFaithful(sack) ==
    /\ ~sack.panic
    /\ sack.cum_ack = mapping_array.cummulative_tsn
    /\ BlocksCover(sack.gap_acks) = RecordedAboveCum
    /\ BlocksMinimal(sack.gap_acks)

\* C3: the SACK generate_sack produces has cum_ack = cumulative_tsn and its
\* gap-ack blocks describe exactly the recorded TSNs above cumulative_tsn, as
\* a minimal list of maximal contiguous ranges.
C3_SackFaithful ==
    \A checked \in BOOLEAN : SackFaithful(GenarateSack(mapping_array, checked))

\* Number of offsets 0, 1, 2, .. that are all recorded.
RECURSIVE ContigFromInit(_)
ContigFromInit(k) == IF k \in recorded THEN ContigFromInit(k + 1) ELSE k

BitsDenoteTsns ==
    /\ \A p \in mapping_array.bits :
          TsnAdd(mapping_array.base_tsn, p) \in RecordedTsns
    /\ \A t \in RecordedTsns :
          SerialGt(t, mapping_array.cummulative_tsn)
             => TsnSub(t, mapping_array.base_tsn) \in mapping_array.bits

CumIsContiguousPrefix ==
    mapping_array.cummulative_tsn = TsnAdd(TsnSub(init_tsn, 1), ContigFromInit(0))

CursorOrder ==
    /\ SerialLe(mapping_array.base_tsn, TsnAdd(mapping_array.cummulative_tsn, 1))
    /\ SerialLe(TsnAdd(mapping_array.cummulative_tsn, 1),
                TsnAdd(mapping_array.largest_tsn, 1))

UpdateReturn ==
    /\ last_update.res = "Some"
          => /\ last_update.val = mapping_array.cummulative_tsn
             /\ SerialGt(mapping_array.cummulative_tsn, last_update.old_cum)
    /\ last_update.res \in {"None", "InvalidValue"}
          => mapping_array.cummulative_tsn = last_update.old_cum

\* C4: bit k denotes TSN base_tsn + k, cumulative_tsn is the end of the
\* contiguous prefix of recorded TSNs, base_tsn <= cumulative_tsn + 1 <=
\* largest_tsn + 1, and update() returns the new cumulative TSN exactly when
\* it advanced.
C4_MappingInvariant ==
    /\ BitsDenoteTsns
    /\ CumIsContiguousPrefix
    /\ CursorOrder
    /\ UpdateReturn

\* ------------------------------------------------------------------------
\* Claims about the inbound stream
\* ------------------------------------------------------------------------
\* The payload of message m: its fragment payloads in TSN order.
RECURSIVE PayloadFrom(_, _)
PayloadFrom(k, n) == IF n = 0 THEN <<>> ELSE Bytes(k, 1) \o PayloadFrom(k + 1, n - 1)
Payload(m) == PayloadFrom(PeerMsgs[m].first, PeerMsgs[m].n)

OrderedMsgs == {m \in 1..Len(PeerMsgs) : ~PeerMsgs[m].u_bit}
OrderedPayloads == {Payload(m) : m \in OrderedMsgs}

\* All fragments of m, and of every ordered message before it, have arrived.
Ready(m) ==
    \A j \in OrderedMsgs :
        PeerMsgs[j].stream_seq <= PeerMsgs[m].stream_seq => MsgOffs(j) \subseteq delivered

RECURSIVE OnlyOrdered(_)
OnlyOrdered(log) ==
    IF log = <<>> THEN <<>>
    ELSE (IF Head(log) \in OrderedPayloads THEN <<Head(log)>> ELSE <<>>)
         \o OnlyOrdered(Tail(log))

\* The ordered messages read so far followed by those still readable.
OrderedOut ==
    OnlyOrdered(read_log)
    \o [i \in 1..Len(stream_in.readable_ordered_queue) |->
            ConcatData(stream_in.readable_ordered_queue[i].chunks)]

ReadyCount == Cardinality({m \in OrderedMsgs : Ready(m)})

\* C2: whatever the arrival order of the fragments of an ordered message, the
\* message becomes readable exactly once, with the fragment payloads in TSN
\* order, next_seq advances by one per message, and it is read before every
\* ordered message with a later stream_seq.
C2_StreamReassembly ==
    /\ \A k \in AllOffs \ delivered :
          ~PeerChunk(k).u_bit => StreamInRecv(stream_in, PeerChunk(k)).res = "Ok"
    /\ stream_in.next_seq = ReadyCount
    /\ OrderedOut = [i \in 1..ReadyCount |-> Payload(i)]

\* The first message arrived out of TSN order, after the second one was
\* complete, and both have been read.
C2_Witness ==
    /\ 1 \in misordered
    /\ delivered = AllOffs
    /\ OnlyOrdered(read_log) = <<Payload(1), Payload(2)>>
    /\ stream_in.next_seq = 2

UnorderedMsgs == {m \in 1..Len(PeerMsgs) : PeerMsgs[m].u_bit}

\* The unordered messages read so far and those still readable.
UnorderedOut ==
    SelectSeq(read_log, LAMBDA data : data \notin OrderedPayloads)
    \o [i \in 1..Len(stream_in.readable_unordered_queue) |->
            ConcatData(stream_in.readable_unordered_queue[i].chunks)]

\* C15: whatever the arrival order of the fragments of two unordered messages
\* with adjacent TSN ranges, recv() takes every fragment, and the unordered
\* messages that are readable or read are those whose fragments have all
\* arrived, once each, with the fragment payloads in TSN order.
C15_UnorderedReassembly ==
    /\ \A k \in AllOffs \ delivered :
          PeerChunk(k).u_bit => StreamInRecv(stream_in, PeerChunk(k)).res = "Ok"
    /\ Len(UnorderedOut) = Cardinality({m \in UnorderedMsgs : MsgOffs(m) \subseteq delivered})
    /\ {UnorderedOut[i] : i \in 1..Len(UnorderedOut)}
           = {Payload(m) : m \in {n \in UnorderedMsgs : MsgOffs(n) \subseteq delivered}}


\* ------------------------------------------------------------------------
\* Claims about the association
\* ------------------------------------------------------------------------
Established(e) == Has(e) /\ Assoc(e).state = "Established"

\* C1: when the seven calls of the handshake have been made, each on the
\* datagram the call before it produced, both associations are Established
\* and the client's primary path is the path of the address the INIT-ACK came
\* from.
C1_Handshake ==
    script.hs = Len(HandshakeCalls)
        => /\ Established("c")
           /\ Established("s")
           /\ GetPathid(client, script.from) # None
           /\ client.recovery.primary_path = GetPathid(client, script.from)

C1_Witness ==
    /\ script.hs = Len(HandshakeCalls)
    /\ last_op = Op("recv", "c", "Ok")
    /\ Established("c") /\ Established("s")

\* What accept() gave for the first chunk of a datagram, against C5.
AcceptedFromCookie(chunk, acc) ==
    LET Frozen(a, cookie) ==
            /\ a.state = "Established"
            /\ a.my_vtag = cookie.my_vtag /\ a.peer_vtag = cookie.peer_vtag
            /\ a.src_port = cookie.src_port /\ a.dst_port = cookie.dst_port
            /\ a.initial_tsn = cookie.init_ack.init_tsn
            /\ a.recovery.largest_tsn = TsnSub(cookie.init_ack.init_tsn, 1)
            /\ a.mapping_array = MAInitialize(cookie.init.init_tsn)
            /\ \E i \in 1..Len(a.control_waiting_trans) :
                  a.control_waiting_trans[i].chunk.type = "CookieAck"
    IN /\ chunk.type = "CookieEcho"
       /\ chunk.cookie.tag = Hmac(SecretKey, chunk.cookie.body)
       /\ acc.res = "Ok"
       /\ Frozen(acc.assoc[1], chunk.cookie.body)

AcceptStateless(chunk, acc) ==
    /\ acc.assoc # <<>> => AcceptedFromCookie(chunk, acc)
    /\ chunk.type = "Init"
          => /\ acc.assoc = <<>>
             /\ Len(acc.sbuf) = 1 /\ Len(acc.sbuf[1].chunks) = 1
             /\ acc.sbuf[1].chunks[1].type = "InitAck"
             /\ acc.sbuf[1].chunks[1].cookie # <<>>
    /\ (chunk.type = "CookieEcho" /\ chunk.cookie.tag # Hmac(SecretKey, chunk.cookie.body))
          => acc.res = "InvalidChunk" /\ acc.assoc = <<>>

\* C5: accept() returns an association only for a COOKIE-ECHO whose tag is the
\* HMAC of the cookie under the server secret, and that association is
\* Established, carries what the cookie froze and has a COOKIE-ACK queued; for
\* an INIT it creates nothing and writes an INIT-ACK with a cookie; for a
\* COOKIE-ECHO with another tag it fails with InvalidChunk.
C5_StatelessAccept ==
    \A d \in {x \in net \cup Forgeries : x.to = ServerIp /\ x.chunks # <<>>} :
        AcceptStateless(d.chunks[1],
                        Accept(d.from, d.header, d.chunks, SecretKey, ServerVtag,
                               ServerInitTsn))

\* accept() has just returned the association of a genuine COOKIE-ECHO.
C5_Witness ==
    /\ last_op = Op("accept", "s", "Ok")
    /\ peers # <<>>
    /\ peers[1].assoc.state = "Established"
    /\ peers[1].assoc.my_vtag = ServerVtag

ForgedCookieRejected == last_op = Op("accept", "s", "InvalidChunk")

HasAbort(d) == \E i \in 1..Len(d.chunks) : d.chunks[i].type = "Abort"

\* C6: when recv() has returned ProtocolViolation or OOTB, the association is
\* Closed and an ABORT went out in the buffer recv() filled.
C6_AbortOnViolation ==
    (last_op.op = "recv" /\ last_op.res \in {"ProtocolViolation", "OOTB"})
        => /\ Assoc(last_op.who).state = "Closed"
           /\ \E d \in net : d.from = IpOf(last_op.who) /\ HasAbort(d)

\* recv() returned OOTB for a chunk from an address that is no path.
OotbAborted ==
    /\ last_op = Op("recv", "c", "OOTB")
    /\ client.state = "Closed"
    /\ \E d \in net : d.from = ClientIp /\ HasAbort(d)

\* What C7 says an error leaves alone: the lifecycle state, the armed timers,
\* and the outstanding and pending control chunks.
Lifecycle(a) ==
    [state |-> a.state,
     delayed_ack_timeout |-> a.delayed_ack_timeout,
     t2_shutdown_timeout |-> a.recovery.t2_shutdown_timeout,
     timers |-> [i \in 1..Len(a.recovery.path_list) |->
                    <<a.recovery.path_list[i].t1_timeout,
                      a.recovery.path_list[i].t3_retrans_timeout>>],
     outstanding |-> [i \in 1..Len(a.recovery.path_list) |->
                         a.recovery.path_list[i].control_sent],
     pending |-> <<a.control_waiting_trans, a.recovery.control_waiting_trans>>]

OtherErrors == {"InvalidValue", "BufferTooShort"}

ErrorKeepsState(a, called) == called.res \in OtherErrors => Lifecycle(called.a) = Lifecycle(a)

\* C7: a recv() or close() that returns an error other than ProtocolViolation,
\* OOTB or InvalidChunk leaves the lifecycle state, the timers and the
\* outstanding and pending control chunks of the association as they were.
C7_ErrorKeepsState ==
    /\ \A d \in {x \in net : x.to = ClientIp} :
          ~Panicked(client) => ErrorKeepsState(client, Recv(client, d.from, d.chunks))
    /\ \A d \in {x \in net : x.to = ServerIp /\ peers # <<>>} :
          (peers[1].key = d.header /\ ~Panicked(peers[1].assoc))
              => ErrorKeepsState(peers[1].assoc, Recv(peers[1].assoc, d.from, d.chunks))
    /\ \A e \in {x \in Endpoints : Has(x)} : ErrorKeepsState(Assoc(e), Close(Assoc(e)))

Carries(type) ==
    \E d \in script.out : \E i \in 1..Len(d.chunks) : d.chunks[i].type = type

\* C8: in a graceful close started by close() on an Established association
\* with nothing outstanding on either side, with every datagram delivered, the
\* closer goes to ShutdownSent and sends SHUTDOWN, the peer goes to
\* ShutdownReceived and sends SHUTDOWN-ACK, the closer goes to Closed and
\* sends SHUTDOWN-COMPLETE, and the peer goes to Closed.
C8_GracefulClose ==
    script.cl > 0 =>
        LET closer == Assoc(script.who)
            peer == Assoc(Other(script.who))
        IN /\ script.cl \in 1..4 => closer.state = "ShutdownSent"
           /\ script.cl \in 1..2 => peer.state = "Established"
           /\ script.cl = 2 => Carries("Shutdown")
           /\ script.cl \in 3..6 => peer.state = "ShutdownReceived"
           /\ script.cl = 4 => Carries("ShutdownAck")
           /\ script.cl \in 5..7 => closer.state = "Closed"
           /\ script.cl = 6 => Carries("ShutdownComplete")
           /\ script.cl = 7 => peer.state = "Closed"

C8_Witness ==
    /\ script.cl = Len(CloseCalls("c"))
    /\ script.who = "c"
    /\ last_op = Op("recv", "s", "Ok")
    /\ client.state = "Closed"
    /\ peers[1].assoc.state = "Closed"

Queued(a, type) ==
    \E i \in 1..Len(a.recovery.control_waiting_trans) :
        a.recovery.control_waiting_trans[i].chunk.type = type

CloseAsSpecified(a, closed) ==
    IF a.state = "Established"
    THEN /\ closed.res = "Ok"
         /\ IF NoOutstanding(a)
            THEN closed.a.state = "ShutdownSent" /\ Queued(closed.a, "Shutdown")
                 /\ ~Queued(a, "Shutdown")
            ELSE closed.a.state = "ShutdownPending" /\ ~Queued(closed.a, "Shutdown")
    ELSE IF a.state \in {"CookieWait", "CookieEchoed"}
    THEN closed.res = "InvalidValue" /\ closed.a = a
    ELSE closed.res = "Ok" /\ closed.a = a

HasSack(d) == \E i \in 1..Len(d.chunks) : d.chunks[i].type = "Sack"

SackEndsPending(a, received) ==
    (a.state = "ShutdownPending" /\ received.res = "Ok" /\ NoOutstanding(received.a))
        => received.a.state = "ShutdownSent" /\ Queued(received.a, "Shutdown")

\* C9: close() from Established gives ShutdownSent with a SHUTDOWN queued when
\* no data is outstanding and ShutdownPending otherwise, fails with
\* InvalidValue and no change in CookieWait and CookieEchoed, and succeeds
\* with no change in every other state; in ShutdownPending a SACK that leaves
\* no data outstanding gives ShutdownSent.
C9_Close ==
    /\ \A e \in {x \in Endpoints : Has(x)} :
          ~Panicked(Assoc(e)) => CloseAsSpecified(Assoc(e), Close(Assoc(e)))
    /\ \A d \in {x \in net : x.to = ClientIp /\ HasSack(x)} :
          ~Panicked(client) => SackEndsPending(client, Recv(client, d.from, d.chunks))

\* The client closed with data outstanding and the SACK of that data came.
C9_Witness ==
    /\ last_op = Op("recv", "c", "Ok")
    /\ client.state = "ShutdownSent"
    /\ Queued(client, "Shutdown")
    /\ NoOutstanding(client)

CloseInvalidSeen == last_op = Op("close", "c", "InvalidValue")

FlightWithinWindow(a) ==
    \A i \in 1..Len(a.recovery.path_list) :
        a.recovery.path_list[i].flight <= Min(a.recovery.path_list[i].cwnd, a.recovery.rwnd)

\* C10: on every path of every association, at every point, the bytes in
\* flight do not exceed min(cwnd of the path, receive window the peer
\* advertised).
C10_FlightWithinWindow ==
    \A e \in {x \in Endpoints : Has(x)} :
        ~Panicked(Assoc(e)) => FlightWithinWindow(Assoc(e))

\* The TSNs the sender has sent that the receiver's cumulative ack does not
\* cover.
Unacked ==
    {t \in DOMAIN misses : SerialGt(t, CumOf(peer_got, TsnSub(ClientInitTsn, 1)))}

T3Queued(a) == {x.tsn : x \in a.recovery.tsn_waiting_t3_retrans.tree_map}

\* C13: when the T3 timer of a path expires, the path's ssthresh becomes
\* max(4 * mtu, cwnd / 2) of the cwnd it had before, its cwnd becomes mtu, and
\* every DATA sent on it that is not cumulatively acknowledged is in the queue
\* of T3 retransmissions.
C13_T3Timeout ==
    sender_op.op = "timeout" =>
        /\ PrimaryOf(sender).ssthresh
               = Max(4 * PrimaryOf(sender).mtu, sender_op.cwnd \div 2)
        /\ PrimaryOf(sender).cwnd = PrimaryOf(sender).mtu
        /\ Unacked \subseteq T3Queued(sender)

\* A single DATA was sent and never acknowledged, and T3 has expired.
C13_Witness ==
    /\ sender_op.op = "timeout"
    /\ DOMAIN misses = {ClientInitTsn}
    /\ peer_got = {}
    /\ sender_op.cwnd = 4 * PrimaryOf(sender).mtu
    /\ PrimaryOf(sender).ssthresh = sender_op.cwnd
    /\ T3Queued(sender) = {ClientInitTsn}

MissIndications(a, tsn) ==
    a.recovery.data_sent.array[TsnQueueIndex(a.recovery.data_sent, tsn)].miss_indications

FastQueued(a) == {x.tsn : x \in a.recovery.tsn_waiting_fast_retrans.tree_map}

\* C11: a DATA in state Sent has one miss indication for each SACK whose
\* highest newly acknowledged TSN was above its TSN; the third makes it Lost,
\* queues it for fast retransmission unless it was so queued before, and puts
\* the association into fast recovery; and when one DATA is due for fast
\* retransmission the next send() carries that DATA and no other.
C11_FastRetransmit ==
    /\ \A u \in TsnsIn(sender, "Sent") : MissIndications(sender, u) = misses[u]
    /\ sender_op.op = "sack" =>
           /\ sender_op.lost \subseteq TsnsIn(sender, "Lost")
           /\ sender_op.lost # {} => sender.recovery.fast_recovery
           /\ sender_op.due \subseteq FastQueued(sender)
    /\ (sender_op.op = "send" /\ sender_op.res = "Ok" /\ sender_op.due # {})
           => \E v \in sender_op.due : sender_op.tsns = <<v>>

\* The cumulative TSN ack of the SACK the sender took last.
LastCumAck == CumOf(peer_got, TsnSub(ClientInitTsn, 1))

LargestSent == CHOOSE t \in DOMAIN misses : \A u \in DOMAIN misses : ~SerialGt(u, t)

EntersRecovery ==
    sender_op.op = "sack" /\ ~sender_op.fast_recovery /\ sender.recovery.fast_recovery

EntryAsSpecified ==
    EntersRecovery =>
        /\ sender.recovery.recovery_point = LargestSent
        /\ PrimaryOf(sender).cwnd = PrimaryOf(sender).ssthresh

\* C12: the SACK that puts the association into fast recovery sets the recovery
\* point to the largest TSN sent and cwnd to ssthresh, and from then on no SACK
\* changes cwnd unless its cumulative TSN ack is strictly greater than the
\* recovery point.
C12_RecoveryKeepsCwnd ==
    /\ EntryAsSpecified
    /\ (sender_op.op = "sack" /\ sender_op.fast_recovery
           /\ ~SerialGt(LastCumAck, sender_op.recovery_point))
           => PrimaryOf(sender).cwnd = sender_op.cwnd

\* C12, amended: no SACK changes cwnd unless its cumulative TSN ack has reached
\* the recovery point.
C12_RecoveryKeepsCwndBelow ==
    /\ EntryAsSpecified
    /\ (sender_op.op = "sack" /\ sender_op.fast_recovery
           /\ SerialLt(LastCumAck, sender_op.recovery_point))
           => /\ PrimaryOf(sender).cwnd = sender_op.cwnd
              /\ sender.recovery.fast_recovery

\* In fast recovery a SACK moved the cumulative TSN ack, below the recovery
\* point, with the window full.
C12_Witness ==
    /\ sender_op.op = "sack" /\ sender_op.fast_recovery
    /\ SerialLt(LastCumAck, sender_op.recovery_point)
    /\ SerialGe(LastCumAck, ClientInitTsn)
    /\ PrimaryOf(sender).flight + PrimaryOf(sender).ack >= PrimaryOf(sender).cwnd
    /\ PrimaryOf(sender).cwnd <= PrimaryOf(sender).ssthresh

Eligible(r, pathid) ==
    /\ HasPath(r, pathid)
    /\ r.path_list[pathid + 1].confirmed
    /\ r.path_list[pathid + 1].state = "Active"

\* C19: set_primary_path(p) succeeds only for an existing path that is
\* confirmed and Active and otherwise leaves the primary path as it is, and the
\* primary path of the association is confirmed and Active in every state.
C19_PrimaryActive ==
    /\ \A p \in 0..Len(sender.recovery.path_list) :
          LET set == SetPrimaryPath(sender.recovery, p)
          IN IF set.ok THEN Eligible(sender.recovery, p) /\ set.r.primary_path = p
             ELSE set.r = sender.recovery
    /\ sender.recovery.primary_path # None
           => Eligible(sender.recovery, sender.recovery.primary_path)

\* The datagrams on their way to the server that carry one DATA chunk, as the
\* client's send() writes them.
DataToServer ==
    {d \in net : d.to = ServerIp /\ Len(d.chunks) = 1 /\ d.chunks[1].type = "Data"}

DeliversToOwnStream(a, d) ==
    LET chunk == d.chunks[1]
        Delivered(r) ==
            MAUpdate(a.mapping_array, chunk.tsn).res = "Some" =>
                /\ r.res = "Ok"
                /\ \A id \in 0..(Len(a.stream_in) - 1) :
                      id # chunk.stream_id => r.a.stream_in[id + 1] = a.stream_in[id + 1]
                /\ r.a.stream_in[chunk.stream_id + 1] # a.stream_in[chunk.stream_id + 1]
                /\ (chunk.b_bit /\ chunk.e_bit
                      /\ chunk.stream_seq = a.stream_in[chunk.stream_id + 1].next_seq)
                       => StreamInRead(r.a.stream_in[chunk.stream_id + 1]).read
    IN Delivered(Recv(a, d.from, d.chunks))

\* C14: recv() takes every DATA that moves the cumulative TSN and hands it to
\* the inbound stream that has the chunk's stream identifier, whatever the
\* stream and the payload protocol id, so that the message the peer wrote on
\* stream s is read from stream s.
C14_OwnStream ==
    (Has("s") /\ peers[1].assoc.state = "Established" /\ ~Panicked(peers[1].assoc))
        => \A d \in DataToServer :
              d.chunks[1].stream_id < Len(peers[1].assoc.stream_in)
                  => DeliversToOwnStream(peers[1].assoc, d)

\* A SACK is due: recv() has seen ack_freq DATA since the last SACK or delayed
\* ack is disabled, or on_timeout() found the delayed-ack timer expired.
SackDue(a) == a.send_sack

SackOnlyWhenDue(a) ==
    LET Sent(s) == (s.sbuf # <<>> /\ HasSack(s.sbuf[1])) => SackDue(a)
    IN Sent(Send(a, FALSE))

\* C16: send() writes a SACK only when one is due; while the delayed-ack timer
\* of a single DATA is armed and has not expired, send() writes none.
C16_DelayedAck ==
    \A e \in Endpoints :
        (Has(e) /\ ~Panicked(Assoc(e)) /\ Assoc(e).state = "Established")
            => SackOnlyWhenDue(Assoc(e))

\* C17: between two calls of send() that return Done an Established
\* association sends at most MAX_BURST datagrams that are no retransmissions,
\* and the burst counter is 0 when send() has returned Done.
C17_BurstCap ==
    /\ sender.state = "Established" => sender_op.burst <= MAX_BURST
    /\ (sender_op.op = "send" /\ sender_op.res = "Done") => sender.send_burst_count = 0

\* send() has returned Done after MAX_BURST datagrams although a message was
\* waiting and the window had room for it.
C17_Witness ==
    /\ sender_op.op = "send" /\ sender_op.res = "Done"
    /\ sender.state = "Established"
    /\ sender.stream_out[1].pending_queue # <<>>
    /\ GetAvailableWindow(sender.recovery, sender.recovery.primary_path) > 16
    /\ Cardinality(DOMAIN misses) = MAX_BURST
    /\ peer_got = {}

\* The bytes of a buffer, each named by the write it came from and its place.
RECURSIVE Expand(_)
Expand(data) ==
    IF data = <<>> THEN <<>>
    ELSE [i \in 1..(Head(data).hi - Head(data).lo + 1) |->
             <<Head(data).src, Head(data).lo + i - 1>>] \o Expand(Tail(data))

\* The message a generated chunk belongs to: one more than the number of
\* chunks with e_bit before it.
OutMsgOf(i) == Cardinality({j \in 1..(i - 1) : generated[j].chunk.e_bit}) + 1
ChunksOf(k) == {i \in 1..Len(generated) : OutMsgOf(i) = k}

RECURSIVE ProducedFrom(_, _)
ProducedFrom(k, i) ==
    IF i > Len(generated) THEN <<>>
    ELSE (IF OutMsgOf(i) = k THEN Expand(generated[i].chunk.data) ELSE <<>>)
         \o ProducedFrom(k, i + 1)
Produced(k) == ProducedFrom(k, 1)

IsPrefix(s, t) == Len(s) <= Len(t) /\ SubSeq(t, 1, Len(s)) = s

OutMessageDone(k) == \E i \in ChunksOf(k) : generated[i].chunk.e_bit

FragmentsOf(k) ==
    /\ k <= Len(written)
    /\ IF OutMessageDone(k)
       THEN written[k].complete /\ Produced(k) = Expand(written[k].data)
       ELSE IsPrefix(Produced(k), Expand(written[k].data))
    /\ \A i \in ChunksOf(k) :
          /\ generated[i].chunk.b_bit <=> (\A j \in ChunksOf(k) : i <= j)
          /\ generated[i].chunk.e_bit => (\A j \in ChunksOf(k) : j <= i)
          /\ generated[i].chunk.u_bit = written[k].unordeded
          /\ generated[i].chunk.stream_seq = generated[i].seq_before
          /\ generated[i].seq_after =
                 IF generated[i].chunk.e_bit /\ ~written[k].unordeded
                 THEN SsnAdd(generated[i].seq_before, 1)
                 ELSE generated[i].seq_before
          /\ \A j \in ChunksOf(k) :
                 generated[j].chunk.stream_seq = generated[i].chunk.stream_seq

\* C18: the chunks generate_data() returns for one written message carry, in
\* order, exactly the written bytes; only the first has b_bit, only the last
\* has e_bit, all carry one stream_seq, and next_seq of an ordered message
\* advances by 1 with the chunk that has e_bit and with no other chunk.
C18_Fragmentation ==
    \A i \in 1..Len(generated) : FragmentsOf(OutMsgOf(i))

\* An ordered message written in several pieces has left in several chunks,
\* and the stream sequence number has wrapped with its last chunk.
C18_Witness ==
    \E k \in 1..Len(written) :
        /\ OutMessageDone(k)
        /\ ~written[k].unordeded
        /\ written[k].writes >= 2
        /\ Cardinality(ChunksOf(k)) >= 2
        /\ DataLen(written[k].data) >= 4
        /\ \E i \in ChunksOf(k) : generated[i].seq_before = SsnMod - 1
                                   /\ generated[i].seq_after = 0


\* The mapping array with every TSN it holds counted from init_tsn: what the
\* same calls leave behind when init_tsn is 0.
Rebase(ma) ==
    [ma EXCEPT !.base_tsn = TsnSub(@, init_tsn),
               !.largest_tsn = TsnSub(@, init_tsn),
               !.cummulative_tsn = TsnSub(@, init_tsn)]

SameUpdate(u, v) ==
    /\ u.res = v.res
    /\ Rebase(u.ma) = v.ma
    /\ u.res = "Some" => TsnSub(u.val, init_tsn) = v.val

SameSack(s, z) ==
    /\ s.panic = z.panic
    /\ TsnSub(s.cum_ack, init_tsn) = z.cum_ack
    /\ s.gap_acks = z.gap_acks

\* C20: the mapping array behaves by offsets from init_tsn alone: in every
\* state, update() of any offset and generate_sack give, for the init_tsn in
\* use (0, a small one, or one that makes the TSNs wrap through 0), the result,
\* the cumulative and largest offsets and the gap-ack blocks that they give
\* for the same array counted from init_tsn = 0.
C20_SerialLaw ==
    mapping_array.len > 0 =>
        /\ \A off \in 0..(MaxOff + 1) :
               SameUpdate(MAUpdate(mapping_array, TsnAdd(init_tsn, off)),
                          MAUpdate(Rebase(mapping_array), off))
        /\ \A checked \in BOOLEAN :
               SameSack(GenarateSack(mapping_array, checked),
                        GenarateSack(Rebase(mapping_array), checked))


\* update(tsn) called again for a TSN that an earlier call recorded.
Repeated(tsn) == MAUpdate(mapping_array, tsn)

UpdateIdempotent(tsn) ==
    /\ Repeated(tsn).res \in {"Some", "None", "InvalidValue"}
    /\ Repeated(tsn).ma.cummulative_tsn = mapping_array.cummulative_tsn
    /\ Repeated(tsn).ma.largest_tsn = mapping_array.largest_tsn

\* C21: in every state of the mapping array, update(tsn) for a TSN that an
\* earlier update() has recorded, whether it succeeds or fails with
\* InvalidValue, leaves cumulative_tsn and largest_tsn as they are.
C21_UpdateIdempotent ==
    mapping_array.len > 0 => \A tsn \in RecordedTsns : UpdateIdempotent(tsn)

\* Both cases at once: a recorded TSN whose repetition succeeds, between
\* cumulative_tsn and largest_tsn, and one whose repetition is refused.
C21_Witness ==
    /\ mapping_array.len > 0
    /\ \E tsn \in RecordedTsns :
           /\ Repeated(tsn).res = "None"
           /\ SerialGt(tsn, mapping_array.cummulative_tsn)
           /\ SerialLt(tsn, mapping_array.largest_tsn)
    /\ \E tsn \in RecordedTsns : Repeated(tsn).res = "InvalidValue"


\* The chunk types accept() may find first in a datagram, INIT and COOKIE-ECHO
\* apart, and the datagrams that bring them: those on the way to the server
\* and one of each type from a host without association.
OotbTypes ==
    {"Abort", "ShutdownComplete", "ShutdownAck", "Data", "Sack", "InitAck",
     "CookieAck", "Shutdown", "Heartbeat", "HeartbeatAck", "Error"}

OotbDatagrams ==
    {d \in net : d.to = ServerIp /\ d.chunks # <<>>
                 /\ Head(d.chunks).type \notin {"Init", "CookieEcho"}}
    \cup {ToServer(<<[type |-> t]>>) : t \in OotbTypes}

\* The chunks of the standard response to a first chunk of type t.
StandardResponse(t) ==
    IF t \in {"Abort", "ShutdownComplete"} THEN <<>>
    ELSE IF t = "ShutdownAck" THEN <<"ShutdownComplete">>
    ELSE <<"Abort">>

OotbAnswered(d, acc) ==
    /\ acc.res = "Ok"
    /\ acc.assoc = <<>>
    /\ Len(acc.sbuf) = Len(StandardResponse(Head(d.chunks).type))
    /\ \A i \in 1..Len(acc.sbuf) :
          /\ Len(acc.sbuf[i].chunks) = 1
          /\ acc.sbuf[i].chunks[1].type = StandardResponse(Head(d.chunks).type)[i]
          /\ acc.sbuf[i].chunks[1].t_bit

\* C22: accept() on a datagram whose first chunk is neither INIT nor
\* COOKIE-ECHO makes no association and writes nothing for ABORT and
\* SHUTDOWN-COMPLETE, a SHUTDOWN-COMPLETE with T-bit 1 for SHUTDOWN-ACK and an
\* ABORT with T-bit 1 for every other chunk type.
C22_OotbAccept ==
    \A d \in OotbDatagrams :
        OotbAnswered(d, Accept(d.from, d.header, d.chunks, SecretKey,
                               ServerVtag, ServerInitTsn))

\* The server has called accept() on a DATA chunk of a host it has no
\* association with, and the ABORT with T-bit 1 is on its way back.
C22_Witness ==
    /\ last_op = Op("accept", "s", "Ok")
    /\ ToServer(<<ForgedData(ClientInitTsn, 0)>>) \notin net
    /\ \E d \in net : /\ d.from = ServerIp /\ d.to = ForeignIp
                      /\ d.chunks = <<AbortChunk(TRUE, "None")>>


BothIn(st) == client.state = st /\ peers[1].assoc.state = st

\* Both endpoints have closed and sent their SHUTDOWN, and neither has
\* received the other's: the two SHUTDOWN chunks cross.
ShutdownsCross ==
    /\ BothIn("ShutdownSent")
    /\ \E d \in net : d.to = ClientIp /\ d.chunks[1].type = "Shutdown"
    /\ \E d \in net : d.to = ServerIp /\ d.chunks[1].type = "Shutdown"

\* C23: when the SHUTDOWN chunks of two endpoints that both closed cross, with
\* every datagram delivered and the timers serviced both associations reach
\* Closed.
C23_SimultaneousClose == ShutdownsCross ~> BothIn("Closed")

\* ------------------------------------------------------------------------
\* The T1 timer of the client's path during the handshake.
\* ------------------------------------------------------------------------
ClientPath == client.recovery.path_list[1]

\* The INIT or COOKIE-ECHO the path holds as sent and not yet answered.
T1Outstanding(a) ==
    LET sent == a.recovery.path_list[1].control_sent
    IN {sent[i] : i \in {j \in 1..Len(sent) : IsT1Chunk(sent[j])}}

\* The chunks of type t the association still holds to send or send again.
T1Pending(a, t) ==
    LET sent == a.recovery.path_list[1].control_sent
        waiting == a.recovery.control_waiting_trans
        queued == a.control_waiting_trans
    IN {sent[i] : i \in {j \in 1..Len(sent) : sent[j].type = t}}
       \cup {waiting[i].chunk : i \in {j \in 1..Len(waiting) : waiting[j].chunk.type = t}}
       \cup {queued[i].chunk : i \in {j \in 1..Len(queued) : queued[j].chunk.type = t}}

T1Requeued(a) ==
    LET waiting == a.recovery.control_waiting_trans
    IN {waiting[i].chunk : i \in 1..Len(waiting)}

\* While a transmitted INIT or COOKIE-ECHO awaits its reply, T1 is armed.
T1ArmedWhileOutstanding == T1Outstanding(client) # {} => ClientPath.t1_timeout

\* After the valid reply the chunk is never sent again: an association past
\* CookieWait holds no INIT, an Established one no COOKIE-ECHO either.
T1NeverAgain ==
    /\ client.state \in {"CookieEchoed", "Established"} => T1Pending(client, "Init") = {}
    /\ client.state = "Established" => T1Pending(client, "CookieEcho") = {}

T1ExpiryStep == T1Expire /\ T1Outstanding(client) # {}

T1ReplyStep ==
    /\ last_op'.op = "recv" /\ last_op'.who = "c" /\ last_op'.res = "Ok"
    /\ \/ client.state = "CookieWait" /\ client'.state = "CookieEchoed"
       \/ client.state = "CookieEchoed" /\ client'.state = "Established"

T1InactiveAtThreshold ==
    ClientPath'.retrans_count >= MAX_PATH_RETRANS => ClientPath'.state = "InActive"

T1Cancelled == T1ReplyStep => ~ClientPath'.t1_timeout /\ T1Outstanding(client') = {}

\* C24 as stated: every expiry of T1 adds one to the retransmission count.
C24_T1EveryExpiryCounts ==
    /\ [](T1ArmedWhileOutstanding /\ T1NeverAgain)
    /\ [][/\ T1ExpiryStep =>
                /\ ClientPath'.retrans_count = ClientPath.retrans_count + 1
                /\ T1InactiveAtThreshold
                /\ T1Outstanding(client) \subseteq T1Requeued(client')
          /\ T1Cancelled]_vars

\* C24: a transmitted INIT or COOKIE-ECHO keeps T1 armed until it is answered;
\* an expiry of T1 adds one to the retransmission count of a path that is not
\* yet InActive (and leaves the count of an InActive path as it is), makes the
\* path InActive at MAX_PATH_RETRANS, and queues the same chunk again; the
\* valid reply clears T1, and the chunk is not sent again after it.
C24_T1 ==
    /\ [](T1ArmedWhileOutstanding /\ T1NeverAgain)
    /\ [][/\ T1ExpiryStep =>
                /\ ClientPath'.retrans_count =
                       IF ClientPath.state = "InActive" THEN ClientPath.retrans_count
                       ELSE ClientPath.retrans_count + 1
                /\ T1InactiveAtThreshold
                /\ T1Outstanding(client) \subseteq T1Requeued(client')
          /\ T1Cancelled]_vars

\* The path has been made InActive by T1 expiries and the handshake has still
\* completed: the COOKIE-ACK has cancelled T1.
C24_Witness ==
    /\ ClientPath.state = "InActive"
    /\ ClientPath.retrans_count = MAX_PATH_RETRANS
    /\ client.state = "Established"
    /\ last_op = Op("recv", "c", "Ok")
    /\ ~ClientPath.t1_timeout

\* ------------------------------------------------------------------------
\* The T3 timer of the sender's path.
\* ------------------------------------------------------------------------
SenderPath == sender.recovery.path_list[1]

\* The TSNs sent via path 0 that are neither acknowledged nor declared lost.
OutstandingData(a) ==
    LET arr == a.recovery.data_sent.array
    IN {TsnQueueTsn(a.recovery.data_sent, i) :
            i \in {j \in 1..Len(arr) : arr[j].state = "Sent" /\ arr[j].pathid = 0}}

\* C25: after every call T3 of the path is armed if and only if the path has
\* outstanding data.
C25_T3Exact ==
    ~Panicked(sender) => (SenderPath.t3_retrans_timeout <=> OutstandingData(sender) # {})


\* ------------------------------------------------------------------------
\* The growth of cwnd on a SACK.
\* ------------------------------------------------------------------------
\* A step in which the sender receives a SACK.
SackStep == sender_op'.op = "sack" /\ sender' # sender

CumAckAdvanced == SerialGt(sender'.recovery.cum_ack, sender.recovery.cum_ack)

\* What the SACK of the step acknowledges of the chunks sent via the path:
\* those up to the new cumulative ack, and those it takes out of flight.
NewlyCumAcked ==
    SelectSeq(SenderPath.data_sent,
              LAMBDA d : d.state = "Sent" /\ SerialLe(d.tsn, sender'.recovery.cum_ack))

OutOfFlight ==
    SelectSeq(SenderPath.data_sent,
              LAMBDA d : d.state = "Sent" /\ d.tsn \in peer_got')

\* ack and flight of the path when congestion_control() runs.
AckedBytes == SenderPath.ack + SumBytes(NewlyCumAcked)
FlightLeft == SenderPath.flight - SumBytes(OutOfFlight)

\* The path is in fast recovery when congestion_control() runs: it was before
\* the SACK, and the SACK does not reach the recovery point.
InRecoveryAtControl ==
    /\ SenderPath.fast_recovery
    /\ ~(sender.recovery.recovery_point # None
         /\ SerialLe(sender.recovery.recovery_point, sender'.recovery.cum_ack))

CwndGrew == SenderPath'.cwnd > SenderPath.cwnd

GrowthRule ==
    IF SenderPath.cwnd <= SenderPath.ssthresh
    THEN SenderPath'.cwnd = SenderPath.cwnd + Max(AckedBytes, SenderPath.mtu)
    ELSE /\ SenderPath'.cwnd = SenderPath.cwnd + SenderPath.mtu
         /\ SenderPath.partial_bytes_acked + AckedBytes >= SenderPath.cwnd

\* C26: a SACK increases cwnd only if it advances the cumulative ack, the path
\* is not in fast recovery and flight + acked bytes >= cwnd, and then by
\* max(acked bytes, mtu) in slow start and by mtu, once partial_bytes_acked has
\* reached cwnd, in congestion avoidance.
C26_CwndGrowth ==
    [][SackStep /\ CwndGrew =>
           /\ CumAckAdvanced
           /\ ~InRecoveryAtControl
           /\ FlightLeft + AckedBytes >= SenderPath.cwnd
           /\ GrowthRule]_vars

\* C27: an association that is Closed stays Closed whatever is called on it.
C27_ClosedTerminal ==
    [][/\ client.state = "Closed" => client'.state = "Closed"
       /\ peers[1].assoc.state = "Closed" => peers'[1].assoc.state = "Closed"]_vars

\* The outbound streams that hold written messages not yet handed to send().
WrittenUnsent(a) ==
    {i \in 1..Len(a.stream_out) : a.stream_out[i].pending_queue # <<>>}

\* C28: an association in ShutdownSent (it has queued or sent its SHUTDOWN)
\* holds no written message that was not sent, and no DATA that is not
\* acknowledged.
C28_NoDataAbandoned ==
    sender.state = "ShutdownSent" =>
        WrittenUnsent(sender) = {} /\ sender.recovery.data_sent.array = <<>>

\* C29: a send() of an association in ShutdownPending that retransmits DATA
\* leaves every TSN it sent outstanding on the path, with T3 armed.
C29_RetransmitInShutdown ==
    (/\ sender.state = "ShutdownPending" /\ ~Panicked(sender)
     /\ sender_op.op = "send" /\ sender_op.tsns # <<>>) =>
        /\ \A i \in 1..Len(sender_op.tsns) : sender_op.tsns[i] \in OutstandingData(sender)
        /\ SenderPath.t3_retrans_timeout

\* ------------------------------------------------------------------------
\* The control chunks send() takes from the queues.
\* ------------------------------------------------------------------------
SackIsDue(a) ==
    a.state \in {"Established", "ShutdownPending", "ShutdownSent"}
    /\ (a.delayed_ack_timeout \/ a.send_sack)

\* The control chunks that wait to be sent, the SACK that is due included.
ControlPending(a) ==
    Len(a.control_waiting_trans) + Len(a.recovery.control_waiting_trans)
    + (IF SackIsDue(a) THEN 1 ELSE 0)

ControlIn(sbuf) ==
    IF sbuf = <<>> THEN 0 ELSE Len(SelectSeq(sbuf[1].chunks, IsControl))

\* C30: whatever state the sender is in, the control chunks that its next
\* send() takes from the queues are all in the datagram the call returns.
C30_NoControlLost ==
    ~Panicked(sender) =>
        LET Kept(s) ==
                ControlPending(sender) > ControlPending(s.a) =>
                    /\ s.res = "Ok"
                    /\ ControlIn(s.sbuf) = ControlPending(sender) - ControlPending(s.a)
        IN Kept(Send(sender, FALSE))

\* ------------------------------------------------------------------------
\* The T2 timer of the shutdown.
\* ------------------------------------------------------------------------
T2Chunks == {"Shutdown", "ShutdownAck"}

CarriesT2Chunk(sbuf) ==
    \E i \in 1..Len(sbuf) : \E j \in 1..Len(sbuf[i].chunks) :
        sbuf[i].chunks[j].type \in T2Chunks

\* How many chunks of a type wait in the control queue of the recovery engine.
QueuedOf(a, type) ==
    Cardinality({i \in 1..Len(a.recovery.control_waiting_trans) :
                    a.recovery.control_waiting_trans[i].chunk.type = type})

T2Armed(e) == Assoc(e).recovery.t2_shutdown_timeout

\* A send() of e that puts a SHUTDOWN or a SHUTDOWN-ACK on the wire leaves T2 armed.
T2SendStep(e) ==
    (/\ e \in flushing /\ last_op' = Op("send", e, "Ok")
     /\ \E checked \in BOOLEAN : CarriesT2Chunk(Send(Assoc(e), checked).sbuf))
        => Assoc(e)'.recovery.t2_shutdown_timeout

\* An expiry of T2 queues the SHUTDOWN again on the side that closed and the
\* SHUTDOWN-ACK on the side that received a SHUTDOWN.
T2ExpiryStep(e) ==
    (flushing = {} /\ last_op' = Op("on_timeout", e, "Ok")) =>
        /\ Assoc(e).recovery.shutdown_pending \/ Assoc(e).recovery.shutdown_received
        /\ Assoc(e).recovery.shutdown_pending =>
               QueuedOf(Assoc(e)', "Shutdown") = QueuedOf(Assoc(e), "Shutdown") + 1
        /\ Assoc(e).recovery.shutdown_received =>
               QueuedOf(Assoc(e)', "ShutdownAck") = QueuedOf(Assoc(e), "ShutdownAck") + 1

\* e has just received a SHUTDOWN-ACK in ShutdownSent: it is Closed and the
\* SHUTDOWN-COMPLETE waits to be sent.
ShutdownAcked(e) ==
    /\ last_op = Op("recv", e, "Ok")
    /\ Assoc(e).state = "Closed"
    /\ QueuedOf(Assoc(e), "ShutdownComplete") > 0

T2Cancelled(e) == ShutdownAcked(e) => ~T2Armed(e)

T2NeverAgain(e) == [](ShutdownAcked(e) => []~T2Armed(e))

\* C31: a send() that transmits SHUTDOWN or SHUTDOWN-ACK arms T2; every
\* expiry of T2 queues that chunk again; the SHUTDOWN-ACK received in
\* ShutdownSent cancels T2, and T2 is never armed after that.
C31_T2 ==
    /\ [][\A e \in Endpoints : T2SendStep(e) /\ T2ExpiryStep(e)]_vars
    /\ \A e \in Endpoints : [](T2Cancelled(e)) /\ T2NeverAgain(e)

\* ------------------------------------------------------------------------
\* The stream sequence number of unordered messages.
\* ------------------------------------------------------------------------
WholeUnordered(c) == c.u_bit /\ c.b_bit /\ c.e_bit

\* The step hands chunk i of the sender to recv() of the inbound stream.
PipeRecvStep(i) ==
    i \in 1..Len(generated) /\ i \notin delivered /\ delivered' = delivered \cup {i}

\* The message of chunk c is the one recv() put next on the readable unordered queue.
MovedToReadableUnordered(c) ==
    /\ Len(stream_in'.readable_unordered_queue) > Len(stream_in.readable_unordered_queue)
    /\ stream_in'.readable_unordered_queue[Len(stream_in.readable_unordered_queue) + 1]
           = DataMessageNew(c)

\* C32: recv() refuses an ordered chunk whose stream_seq is serially less than
\* next_seq with ProtocolViolation, and moves every unordered whole message to
\* the readable unordered queue whatever its stream_seq is.
C32_StaleCheckOrderedOnly ==
    [][\A i \in 1..MaxChunks : PipeRecvStep(i) =>
          LET c == generated[i].chunk
          IN /\ (~c.u_bit /\ SsnLt(c.stream_seq, stream_in.next_seq))
                    => stream_res' = "ProtocolViolation"
             /\ WholeUnordered(c)
                    => stream_res' = "Ok" /\ MovedToReadableUnordered(c)]_vars

\* ------------------------------------------------------------------------
\* Conflicting chunks on an ordered stream.
\* ------------------------------------------------------------------------
\* The messages with the stream_seq of chunk c that wait for reassembly.
WaitingWith(c) ==
    {i \in 1..Len(stream_in.waiting_ordered_queue) :
        stream_in.waiting_ordered_queue[i].stream_seq = c.stream_seq}

\* c is a fragment with the TSN of a fragment that a waiting message of its
\* stream_seq holds.
RepeatsTsn(c) ==
    /\ ~(c.b_bit /\ c.e_bit)
    /\ \E i \in WaitingWith(c) :
           \E j \in 1..Len(stream_in.waiting_ordered_queue[i].chunks) :
               stream_in.waiting_ordered_queue[i].chunks[j].tsn = c.tsn

\* c begins a message, whole or not, while a message of its stream_seq waits
\* that has its first fragment already, or c is a whole message and fragments
\* of its stream_seq wait.
StartsSecondMessage(c) ==
    /\ c.b_bit
    /\ \E i \in WaitingWith(c) :
           stream_in.waiting_ordered_queue[i].start_tsn # None \/ c.e_bit

\* The step hands chunk c to recv() of the inbound stream.
ConflictRecvStep(c) == delivered' = Append(delivered, c)

\* C33: recv() refuses with ProtocolViolation every ordered chunk that repeats
\* the TSN of a fragment held for its stream_seq, and every chunk that starts
\* a second message with a stream_seq for which a message waits.
C33_ConflictsRefused ==
    [][\A off \in 0..MaxConflictOff, seq \in 0..1, b \in BOOLEAN, e \in BOOLEAN :
          LET c == OrderedChunk(off, seq, b, e)
          IN (ConflictRecvStep(c) /\ (RepeatsTsn(c) \/ StartsSecondMessage(c)))
                 => stream_res' = "ProtocolViolation"]_vars

\* ------------------------------------------------------------------------
\* What send() puts into a datagram first.
\* ------------------------------------------------------------------------
WaitingRetrans(a) ==
    a.recovery.tsn_waiting_fast_retrans.tree_map \cup a.recovery.tsn_waiting_t3_retrans.tree_map

\* The TSNs that wait for the first retransmission after their loss was
\* noticed, and whose chunk the recovery engine still holds as Lost.
FirstDue(a) ==
    {x.tsn : x \in {y \in WaitingRetrans(a) :
                       y.first /\ PopRetransChunk(a.recovery, y.tsn).chunk # <<>>}}

DatagramChunks(sbuf) == IF sbuf = <<>> THEN <<>> ELSE sbuf[1].chunks

\* The DATA of the datagram that were sent before, and those that were not.
RetransIn(sbuf) == {t \in {DataTsns(sbuf)[i] : i \in 1..Len(DataTsns(sbuf))} : t \in DOMAIN misses}
FreshIn(sbuf) == {t \in {DataTsns(sbuf)[i] : i \in 1..Len(DataTsns(sbuf))} : t \notin DOMAIN misses}

\* With a first retransmission due the datagram carries it, and nothing but DATA
\* that was sent before.
RetransFirst(s) ==
    FirstDue(sender) # {} =>
        /\ s.res = "Ok"
        /\ RetransIn(s.sbuf) \cap FirstDue(sender) # {}
        /\ FreshIn(s.sbuf) = {}
        /\ \A i \in 1..Len(DatagramChunks(s.sbuf)) : ~IsControl(DatagramChunks(s.sbuf)[i])

FreshAlone(s) == FreshIn(s.sbuf) # {} => RetransIn(s.sbuf) = {}

\* The control chunks of the datagram are the head of the control queues, the
\* SACK made by this call last in the queue of the association; the DATA that
\* are retransmitted come with ascending TSN and leave no lower TSN of their
\* queue behind.
ControlQueued(a) ==
    [i \in 1..Len(a.control_waiting_trans) |-> a.control_waiting_trans[i].chunk]
    \o [i \in 1..Len(a.recovery.control_waiting_trans) |->
           a.recovery.control_waiting_trans[i].chunk]

InQueueOrder(s) ==
    /\ IsPrefix(SelectSeq(DatagramChunks(s.sbuf), IsControl),
                ControlQueued(SendDueSack(sender, FALSE)))
    /\ \A i, j \in 1..Len(DataTsns(s.sbuf)) :
           (i < j /\ DataTsns(s.sbuf)[i] \in DOMAIN misses /\ DataTsns(s.sbuf)[j] \in DOMAIN misses)
               => SerialLt(DataTsns(s.sbuf)[i], DataTsns(s.sbuf)[j])

\* The step is a call of send() by the sender.
SendStep == sender_op.flush /\ sender_op'.op = "send"

HbAckMatches(a, c) ==
    /\ HasPath(a.recovery, c.pathid)
    /\ \E h \in a.recovery.path_list[c.pathid + 1].heartbeat_sent :
           h.sequence = c.sequence /\ h.random_value = c.random_value

HbAckStep == sender_op'.op = "hback" /\ sender_op.op # "hback"

HbAckTaken(c) ==
    /\ ~Panicked(sender')
    /\ sender'.recovery.path_list[c.pathid + 1].confirmed
    /\ \A h \in sender'.recovery.path_list[c.pathid + 1].heartbeat_sent :
           h.sequence # c.sequence

HbAckIgnored ==
    /\ ~Panicked(sender')
    /\ sender'.recovery.path_list = sender.recovery.path_list

C35_HeartbeatAckMatching ==
    [][HbAckStep =>
          LET c == sender_op'.ack[1]
          IN IF HbAckMatches(sender, c) THEN HbAckTaken(c) ELSE HbAckIgnored]_vars

\* ------------------------------------------------------------------------
\* C36  Handshake ordering on the client: the association made by connect()
\* becomes Established only in a recv() of a COOKIE-ACK while its COOKIE-ECHO
\* is outstanding, and a COOKIE-ECHO is queued only in a recv() of an INIT-ACK
\* with a cookie while its INIT is outstanding, which takes the association
\* from CookieWait to CookieEchoed; a COOKIE-ACK received in CookieWait, or
\* before the COOKIE-ECHO has been sent, never makes is_established() true.
\* ------------------------------------------------------------------------
ControlOutstanding(a, type) ==
    \E i \in 1..Len(a.recovery.path_list) :
        \E j \in 1..Len(a.recovery.path_list[i].control_sent) :
            a.recovery.path_list[i].control_sent[j].type = type

CookieEchoQueued(a) ==
    \E i \in 1..Len(a.control_waiting_trans) :
        a.control_waiting_trans[i].chunk.type = "CookieEcho"

ReceivedChunk(type) ==
    /\ last_op'.op = "recv" /\ last_op'.who = "c" /\ flushing = {}
    /\ \E i \in 1..Len(last_op'.chunks) : last_op'.chunks[i].type = type

ReceivedCookie ==
    \E i \in 1..Len(last_op'.chunks) :
        last_op'.chunks[i].type = "InitAck" /\ last_op'.chunks[i].cookie # <<>>

BecomesEstablished == client.state # "Established" /\ client'.state = "Established"

\* The association has a COOKIE-ECHO: queued, sent, or waiting to be sent again.
CookieEchoHeld(a) ==
    \/ CookieEchoQueued(a)
    \/ ControlOutstanding(a, "CookieEcho")
    \/ QueuedOf(a, "CookieEcho") > 0

CookieEchoAppears == ~CookieEchoHeld(client) /\ CookieEchoHeld(client')

EstablishedByCookieAck ==
    BecomesEstablished =>
        /\ ReceivedChunk("CookieAck")
        /\ ControlOutstanding(client, "CookieEcho")

CookieEchoByInitAck ==
    CookieEchoAppears =>
        /\ ReceivedChunk("InitAck") /\ ReceivedCookie
        /\ ControlOutstanding(client, "Init")
        /\ CookieEchoQueued(client')

InitAckFromCookieWait ==
    CookieEchoAppears => client.state = "CookieWait" /\ client'.state = "CookieEchoed"

ClosedAndFlushed(e) ==
    /\ Has(e) /\ ~Panicked(Assoc(e))
    /\ Assoc(e).state = "Closed"
    /\ e \notin flushing
    /\ Assoc(e).control_waiting_trans = <<>>
    /\ Assoc(e).recovery.control_waiting_trans = <<>>

Quiescent(a) == ~GetTimeout(a) /\ Send(a, FALSE).res = "Done"

C37_ClosedQuiescent == \A e \in Endpoints : ClosedAndFlushed(e) => Quiescent(Assoc(e))

\* ------------------------------------------------------------------------
\* C38  The sender's cumulative-ack point never exceeds the highest TSN it
\* has assigned: a SACK whose cumulative TSN ack or gap-ack blocks refer to
\* TSNs that were never sent, or to the cumulative TSN ack itself, does not
\* take cum_ack past the data that was sent, and the sent-data queue is never
\* indexed or drained outside the TSNs it holds.
\* ------------------------------------------------------------------------
CumAckWithinSent(a) == SerialLe(a.recovery.cum_ack, a.recovery.largest_tsn)

C38_CumAckWithinSent == ~Panicked(sender) /\ CumAckWithinSent(sender)

\* ------------------------------------------------------------------------
\* C39  update(tsn) never accesses the bitmap outside its bytes: for a TSN
\* that is serially not less than base_tsn and cumulative_tsn but 2048 or more
\* TSNs ahead of base_tsn, and for a DATA chunk that is processed before the
\* mapping array was initialized, update() returns an error or records the
\* TSN in a bitmap that has grown.
\* ------------------------------------------------------------------------
UpdateFar ==
    /\ last_update.res # "none"
    /\ ~SerialLt(last_update.tsn, last_update.old_base)
    /\ ~SerialLt(last_update.tsn, last_update.old_cum)
    /\ \/ TsnSub(last_update.tsn, last_update.old_base) >= 8 * StorageLen
       \/ mapping_array.len = 0

C39_UpdateInBounds ==
    UpdateFar =>
        \/ last_update.res = "InvalidValue"
        \/ /\ last_update.res \in {"Some", "None"}
           /\ TsnSub(last_update.tsn, init_tsn) \in recorded

\* ------------------------------------------------------------------------
\* C40  Path failure is permanent and cumulative: the retransmission counter
\* of a path never decreases (no acknowledgement of data, of a handshake
\* chunk or of a HEARTBEAT resets it) and never exceeds MAX_PATH_RETRANS; the
\* path is InActive exactly when the counter, raised by T1, T3 and lost
\* HEARTBEATs, has reached MAX_PATH_RETRANS; and an InActive path never
\* becomes Active again.
\* ------------------------------------------------------------------------
CounterCapped(path) == path.retrans_count <= MAX_PATH_RETRANS

InActiveAtCap(path) == path.state = "InActive" <=> path.retrans_count >= MAX_PATH_RETRANS

CounterKept(old, new) ==
    /\ new.retrans_count >= old.retrans_count
    /\ old.state = "InActive" => new.state = "InActive"

C40_PathFailure ==
    [][/\ Len(sender'.recovery.path_list) >= Len(sender.recovery.path_list)
       /\ \A p \in 1..Len(sender.recovery.path_list) :
              /\ CounterKept(sender.recovery.path_list[p], sender'.recovery.path_list[p])
              /\ CounterCapped(sender'.recovery.path_list[p])
              /\ InActiveAtCap(sender'.recovery.path_list[p])]_vars

\* The path has failed through expiries of T1, of T3 and of the heartbeat
\* timer, with an answered handshake, acknowledged data and an echoed
\* HEARTBEAT in between, and a timer has expired after the failure.
C40_Witness ==
    /\ FailPath(sender).state = "InActive"
    /\ FailPath(sender).retrans_count = MAX_PATH_RETRANS
    /\ spent.losses = {"t1", "t3", "hb"}
    /\ {"t1ack", "sack", "hback"} \subseteq peer_got
    /\ spent.timeouts > MAX_PATH_RETRANS
====
